---- MODULE Spec2Model ----
(***************************************************************************)
(* Model of the Modus Themes extension (wroyca/vscode-modus): the palette  *)
(* parser (parseThemeFile, applyOverrides, resolveColor), the theme        *)
(* generator (generateTheme) and the orchestration (generateThemes).       *)
(*                                                                         *)
(* A JavaScript string is a sequence of one-character strings, so that     *)
(* startsWith('#'), emptiness and the regular expressions of the source    *)
(* are computed on the characters.  A Map<string,string> is a function     *)
(* whose domain is the set of its keys.                                    *)
(*                                                                         *)
(* Two revisions of extension.ts are in the repository: src/extension.ts   *)
(* and the one stored in .github/ISSUE_TEMPLATE/report.yml.  The variable  *)
(* build says which of them runs.                                          *)
(***************************************************************************)
EXTENDS Integers, Sequences, FiniteSets, TLC

VARIABLES
  \* ---- parser-level specification (SpecParser) ----
  pal,          \* the palette handed to applyOverrides / resolveColor
  ovr,          \* the overrides map handed to applyOverrides (entries in order)
  applied,      \* what applyOverrides returned or threw
  rpal,         \* resolveColor: its palette argument
  rname,        \* resolveColor: its name argument
  current,      \* resolveColor: local variable current
  visited,      \* resolveColor: local variable visited
  rpc,          \* resolveColor: position ("idle", "loop", "done", "threw")
  resolved,     \* resolveColor: the value returned
  \* ---- orchestration specification (Spec) ----
  build,        \* which revision of extension.ts runs
  content,      \* per variant: the text of its source file
  config,       \* the IExtensionConfiguration of the run
  gpc,          \* generateThemes: position
  pc,           \* per variant: position of its pipeline
  palette,      \* per variant: result of parseThemeFile
  finalPalette, \* per variant: result of applyOverrides
  theme,        \* per variant: result of generateTheme
  disk,         \* per variant: what its output file holds
  failure,      \* per variant: the error its pipeline rejected with
  outcome,      \* generateThemes: counts and the error surfaced
  \* ---- source-file specification (SpecFile) ----
  ftext,        \* the text of the source file parseThemeFile reads
  fread,        \* whether fs.readFile succeeded ("none": not called yet)
  parsed,       \* what parseThemeFile returned or threw
  chain,        \* the palette held: parsed, then merged with overrides
  nmerge,       \* how many times applyOverrides was applied to it
  \* ---- synthesis specification (SpecTheme) ----
  tdef,         \* index of the theme definition in THEME_DEFINITIONS
  tpal,         \* the parsed palette of the variant
  tfinal,       \* what applyOverrides returned or threw
  tres,         \* what generateTheme returned or threw
  \* ---- opacity specification (SpecOpacity) ----
  ohex,         \* applyOpacity: its hex argument
  oopacity,     \* applyOpacity: its opacity argument
  blended,      \* what applyOpacity returned or threw
  \* ---- expansion specification (SpecExpand) ----
  xroot,        \* expand: the configuration tree
  xpath,        \* expand: the root path
  expanded,     \* expand: the mapping entries returned
  \* ---- extension specification (SpecExtension) ----
  apc,          \* activate: position ("idle", "initial", "activated", "rejected")
  aerror,       \* activate: the error it rejected with
  disposables,  \* ModusThemesExtension.disposables, in the order pushed
  live,         \* the registrations VS Code holds: registered and not disposed
  deactivated,  \* VS Code has called the exported deactivate()
  runs,         \* the generateThemes runs, in the order they were started
  edisk         \* per variant: what its output file holds, and the run that wrote it

parserVars == <<pal, ovr, applied, rpal, rname, current, visited, rpc, resolved>>
themeVars == <<build, content, config, gpc, pc, palette, finalPalette, theme, disk,
              failure, outcome>>
fileVars == <<ftext, fread, parsed, chain, nmerge>>
synthVars == <<tdef, tpal, tfinal, tres>>
opacityVars == <<ohex, oopacity, blended>>
expandVars == <<xroot, xpath, expanded>>
lifeVars == <<apc, aerror, disposables, live, deactivated, runs, edisk>>
extraVars == <<opacityVars, expandVars, lifeVars>>
vars == <<pal, ovr, applied, rpal, rname, current, visited, rpc, resolved,
          build, content, config, gpc, pc, palette, finalPalette, theme, disk,
          failure, outcome, ftext, fread, parsed, chain, nmerge,
          tdef, tpal, tfinal, tres, extraVars>>

----------------------------------------------------------------------------
(* Strings *)

Digits == {"0", "1", "2", "3", "4", "5", "6", "7", "8", "9"}
HexLetters == {"a", "b", "c", "d", "e", "f", "A", "B", "C", "D", "E", "F"}
Letters == {"a", "b", "c", "d", "e", "f", "g", "h", "i", "j", "k", "l", "m",
            "n", "o", "p", "q", "r", "s", "t", "u", "v", "w", "x", "y", "z",
            "A", "B", "C", "D", "E", "F", "G", "H", "I", "J", "K", "L", "M",
            "N", "O", "P", "Q", "R", "S", "T", "U", "V", "W", "X", "Y", "Z"}

\* the digits of Number.prototype.toString(16), by value
HexDigitSeq == << "0", "1", "2", "3", "4", "5", "6", "7", "8", "9", "a", "b", "c", "d", "e", "f" >>

\* the value undefined: no string, since every character is one character long
undefined == <<"undefined">>

\* String.prototype.startsWith(prefix), prefix one character
startsWith(s, prefix) == Len(s) > 0 /\ s[1] = prefix

\* the character class [0-9A-Fa-f]
IsHexDigit(ch) == ch \in Digits \cup HexLetters

\* the character class [a-zA-Z0-9-]
IsNameChar(ch) == ch \in Letters \cup Digits \cup {"-"}

\* [a-zA-Z0-9-]+
IsNameToken(s) == Len(s) > 0 /\ \A i \in 1..Len(s) : IsNameChar(s[i])

\* strings of the model
empty == <<>>                                        \* ''
n_a == <<"a">>                                       \* 'a'
n_b == <<"b">>                                       \* 'b'
n_c == <<"c">>                                       \* 'c'
hex1 == <<"#", "1", "1", "1", "1", "1", "1">>        \* '#111111'
hex2 == <<"#", "2", "2", "2", "2", "2", "2">>        \* '#222222'
hex3 == <<"#", "3", "3", "3", "3", "3", "3">>        \* '#333333'
bad_hex == <<"#", "1", "2">>                         \* '#12'
fg_main == <<"f", "g", "-", "m", "a", "i", "n">>     \* 'fg-main'
fg_dim == <<"f", "g", "-", "d", "i", "m">>           \* 'fg-dim'
blue_warmer == <<"b", "l", "u", "e", "-", "w", "a", "r", "m", "e", "r">>
magenta_cooler == <<"m", "a", "g", "e", "n", "t", "a", "-", "c", "o", "o", "l", "e", "r">>
hex_00000080 == <<"#", "0", "0", "0", "0", "0", "0", "8", "0">>  \* '#00000080'
magenta_warmer == <<"m", "a", "g", "e", "n", "t", "a", "-", "w", "a", "r", "m", "e", "r">>
blue_faint == <<"b", "l", "u", "e", "-", "f", "a", "i", "n", "t">>
blue_intense == <<"b", "l", "u", "e", "-", "i", "n", "t", "e", "n", "s", "e">>
cyan == <<"c", "y", "a", "n">>
yellow_cooler == <<"y", "e", "l", "l", "o", "w", "-", "c", "o", "o", "l", "e", "r">>
red_faint == <<"r", "e", "d", "-", "f", "a", "i", "n", "t">>
red_cooler == <<"r", "e", "d", "-", "c", "o", "o", "l", "e", "r">>
magenta_faint == <<"m", "a", "g", "e", "n", "t", "a", "-", "f", "a", "i", "n", "t">>
magenta_intense ==
  <<"m", "a", "g", "e", "n", "t", "a", "-", "i", "n", "t", "e", "n", "s", "e">>
blue_cooler == <<"b", "l", "u", "e", "-", "c", "o", "o", "l", "e", "r">>
foreground == <<"f", "o", "r", "e", "g", "r", "o", "u", "n", "d">>  \* 'foreground'
a_at_25 == <<"a", "@", "0", ".", "2", "5">>          \* 'a@0.25'
c_at_50 == <<"c", "@", "0", ".", "5", "0">>          \* 'c@0.50'

----------------------------------------------------------------------------
(* Maps, results, errors *)

EmptyMap == <<>>

MapHas(m, k) == k \in DOMAIN m

MapSet(m, k, v) == [x \in (DOMAIN m) \cup {k} |-> IF x = k THEN v ELSE m[x]]

\* null, undefined in the place of a palette: a value no palette equals
NullMap == [k \in {<<"null">>} |-> <<"null">>]

NULL == [colors |-> NullMap, semantics |-> NullMap]

NoPalette == [colors |-> EmptyMap, semantics |-> EmptyMap]

NoError == [name |-> "none", code |-> "none", cause |-> "none", missing |-> undefined]

\* class ThemeParseError: code THEME_PARSE_ERROR
ThemeParseError(cause) ==
  [name |-> "ThemeParseError", code |-> "THEME_PARSE_ERROR", cause |-> cause,
   missing |-> undefined]

\* class ThemeGenerationError: code THEME_GENERATION_ERROR
ThemeGenerationError(cause) ==
  [name |-> "ThemeGenerationError", code |-> "THEME_GENERATION_ERROR", cause |-> cause,
   missing |-> undefined]

\* class FileOperationError: code FILE_OPERATION_ERROR
FileOperationError(cause) ==
  [name |-> "FileOperationError", code |-> "FILE_OPERATION_ERROR", cause |-> cause,
   missing |-> undefined]

----------------------------------------------------------------------------
(* Validator *)

\* Validator.required: passes unless the value is null or undefined
required(value) == value /= NULL

\* Validator.notEmpty: passes unless !value
notEmpty(value) == value /= empty

\* Validator.hexColor: passes when /^#[0-9A-Fa-f]{6}$/ matches
hexColor(value) ==
  /\ Len(value) = 7
  /\ value[1] = "#"
  /\ \A i \in 2..7 : IsHexDigit(value[i])

----------------------------------------------------------------------------
(* Opacity Transform: applyOpacity(hex, opacity).  An opacity is a record: *)
(* whether it is a number, and its value in hundredths.                    *)

BlendOk(v) == [status |-> "ok", value |-> v, error |-> NoError]

BlendThrew(err) == [status |-> "threw", value |-> undefined, error |-> err]

NotBlended == [status |-> "none", value |-> undefined, error |-> NoError]

\* ColorFormatError: a hex value failed format validation
ColorFormatError == [NoError EXCEPT !.name = "ColorFormatError"]

\* ColorOpacityError: the opacity is non-numeric or outside [0,1]
ColorOpacityError == [NoError EXCEPT !.name = "ColorOpacityError"]

\* optional '#' prefix insertion
normalizeHex(hex) == IF startsWith(hex, "#") THEN hex ELSE <<"#">> \o hex

\* the opacity is a number in [0,1]
opacityValid(opacity) ==
  opacity.numeric /\ 0 <= opacity.hundredths /\ opacity.hundredths <= 100

\* the opacity scaled to [0,255] and rounded: Math.round(opacity * 255)
scaleOpacity(opacity) == (2 * 255 * opacity.hundredths + 100) \div 200

\* Number.prototype.toString(16)
RECURSIVE toHex(_)
toHex(n) ==
  IF n < 16 THEN << HexDigitSeq[n + 1] >>
  ELSE toHex(n \div 16) \o << HexDigitSeq[(n % 16) + 1] >>

\* a mutant of padStart: no padding
padStart_none(s) == s

\* padStart(2, '0')
padStart(s) == IF Len(s) < 2 THEN <<"0">> \o s ELSE s

\* applyOpacity(hex, opacity)
applyOpacity(hex, opacity) ==
  IF ~hexColor(normalizeHex(hex)) THEN BlendThrew(ColorFormatError)
  ELSE IF ~opacityValid(opacity) THEN BlendThrew(ColorOpacityError)
  ELSE BlendOk(normalizeHex(hex) \o padStart(toHex(scaleOpacity(opacity))))

----------------------------------------------------------------------------
(* Mapping Expansion Engine: expand(rootPath, node).  A node of the nested *)
(* configuration tree is a record: its kind ("string", "object", or        *)
(* "other" for every other value type), the string of a string-valued      *)
(* leaf, and the properties of an object in their order, each <<key,       *)
(* node>>.                                                                 *)

StringLeaf(s) == [kind |-> "string", value |-> s, props |-> <<>>]

OtherLeaf == [kind |-> "other", value |-> empty, props |-> <<>>]

ObjectNode(props) == [kind |-> "object", value |-> empty, props |-> props]

ExpandOk(entries) == [status |-> "ok", entries |-> entries]

NotExpanded == [status |-> "none", entries |-> <<>>]

\* a mutant of joinPath: '.property' is appended to the empty root path too
joinPath_dotAlways(path, key) == path \o <<".">> \o key

\* the accumulated dot-joined path: property appended to path
joinPath(path, key) == IF path = empty THEN key ELSE path \o <<".">> \o key

\* expand(path, node): recursive descent; expandProps is the loop over the
\* properties of an object-valued node, from property i on
RECURSIVE expand(_, _)
RECURSIVE expandProps(_, _, _)
expand(path, node) ==
  IF node.kind = "string" THEN << <<path, node.value>> >>
  ELSE IF node.kind = "object" THEN expandProps(path, node.props, 1)
  ELSE <<>>

expandProps(path, props, i) ==
  IF i > Len(props) THEN <<>>
  ELSE expand(joinPath(path, props[i][1]), props[i][2]) \o expandProps(path, props, i + 1)

----------------------------------------------------------------------------
(* ThemeParser.applyOverrides *)

OverridesOk(p, warned) ==
  [status |-> "ok", value |-> p, error |-> NoError, warned |-> warned]

OverridesThrew(err) ==
  [status |-> "threw", value |-> NoPalette, error |-> err, warned |-> {}]

NotApplied == [status |-> "none", value |-> NoPalette, error |-> NoError, warned |-> {}]

\* a mutant of overrideIsColor: every override value is taken for an alias
overrideIsColor_never(value) == FALSE

\* value.startsWith('#'): the override is a color, not an alias
overrideIsColor(value) == startsWith(value, "#")

\* a mutant of overrideEntryValid: keys and values are not validated
overrideEntryValid_lax(key, value) == TRUE

\* Validator.notEmpty(key), Validator.notEmpty(value): outside the inner try
overrideEntryValid(key, value) == notEmpty(key) /\ notEmpty(value)

\* the for loop over overrides.entries(), from entry i on
RECURSIVE applyEntries(_, _, _, _, _)
applyEntries(colors, semantics, overrides, i, warned) ==
  IF i > Len(overrides)
  THEN OverridesOk([colors |-> colors, semantics |-> semantics], warned)
  ELSE LET key == overrides[i][1]
           value == overrides[i][2]
       IN IF ~overrideEntryValid(key, value)
          THEN OverridesThrew(ThemeParseError("Error"))
          ELSE IF overrideIsColor(value)
          THEN IF hexColor(value)
               THEN applyEntries(MapSet(colors, key, value), semantics,
                                 overrides, i + 1, warned)
               ELSE applyEntries(colors, semantics, overrides, i + 1,
                                 warned \cup {key})
          ELSE applyEntries(colors, MapSet(semantics, key, value),
                            overrides, i + 1, warned)

applyOverrides(p, overrides) ==
  IF ~required(p)
  THEN OverridesThrew(ThemeParseError("Error"))
  ELSE applyEntries(p.colors, p.semantics, overrides, 1, {})

\* a mutant of copiesInput: const colors = palette.colors, the maps are shared
copiesInput_alias == FALSE

\* const colors = new Map(palette.colors), semantics = new Map(palette.semantics):
\* the loop writes to copies of the maps of the input
copiesInput == TRUE

\* the maps the loop has written to when it ends or throws, from entry i on
RECURSIVE workingMaps(_, _, _, _)
workingMaps(colors, semantics, overrides, i) ==
  IF i > Len(overrides)
  THEN [colors |-> colors, semantics |-> semantics]
  ELSE LET key == overrides[i][1]
           value == overrides[i][2]
       IN IF ~overrideEntryValid(key, value)
          THEN [colors |-> colors, semantics |-> semantics]
          ELSE IF overrideIsColor(value)
          THEN IF hexColor(value)
               THEN workingMaps(MapSet(colors, key, value), semantics, overrides, i + 1)
               ELSE workingMaps(colors, semantics, overrides, i + 1)
          ELSE workingMaps(colors, MapSet(semantics, key, value), overrides, i + 1)

\* the palette passed to applyOverrides, as it is after the call
inputAfter(p, overrides) ==
  IF ~required(p) \/ copiesInput
  THEN p
  ELSE workingMaps(p.colors, p.semantics, overrides, 1)

----------------------------------------------------------------------------
(* ThemeParser.resolveColor *)

\* a mutant of loopCondition: the walk does not look at visited
loopCondition_unvisited(cur, seen, p) == MapHas(p.semantics, cur)

\* while (palette.semantics.has(current) && !visited.has(current))
loopCondition(cur, seen, p) == MapHas(p.semantics, cur) /\ cur \notin seen

\* a mutant of directFirst: the alias is followed before the direct entry
directFirst_aliasWins(name, p) == MapHas(p.colors, name) /\ ~MapHas(p.semantics, name)

\* if (palette.colors.has(name)): the direct entry is looked up first
directFirst(name, p) == MapHas(p.colors, name)

\* if (palette.colors.has(current)) inside the loop, after the hop
hopResolves(next, p) == MapHas(p.colors, next)

\* the while loop, from the state (cur, seen)
RECURSIVE followSemantics(_, _, _)
followSemantics(cur, seen, p) ==
  IF loopCondition(cur, seen, p)
  THEN LET next == p.semantics[cur]
       IN IF hopResolves(next, p)
          THEN p.colors[next]
          ELSE followSemantics(next, seen \cup {cur}, p)
  ELSE undefined

\* a mutant of catchReturns: the error of a validator is thrown to the caller
catchReturns_rethrow == FALSE

\* catch (error) { this.logger.debug(...); return undefined; }
catchReturns == TRUE

resolveColor(name, p) ==
  IF ~notEmpty(name) \/ ~required(p)
  THEN undefined                       \* thrown, caught, logged: undefined
  ELSE IF directFirst(name, p)
  THEN p.colors[name]
  ELSE followSemantics(name, {}, p)

----------------------------------------------------------------------------
(* ThemeParser.parseThemeFile, on the text it has read.  The text is the   *)
(* sequence of its parenthesised pairs (name target) and (name "target"):  *)
(* both regular expressions match inside one pair of parentheses.          *)

Form(name, target, quoted) == [name |-> name, target |-> target, quoted |-> quoted]

\* /\(([a-zA-Z0-9-]+)\s+"(#[0-9a-fA-F]{6})"\)/g matches the pair
colorRegex(form) == form.quoted /\ IsNameToken(form.name) /\ hexColor(form.target)

\* /\(([a-zA-Z0-9-]+)\s+([a-zA-Z0-9-]+)\)/g matches the pair
semanticRegex(form) == ~form.quoted /\ IsNameToken(form.name) /\ IsNameToken(form.target)

\* a mutant of colorsFound: a palette of aliases alone is accepted
colorsFound_orAliases(colors, semantics) ==
  Cardinality(DOMAIN colors) /= 0 \/ Cardinality(DOMAIN semantics) /= 0

\* if (colors.size === 0) throw: the negation of its condition
colorsFound(colors, semantics) == Cardinality(DOMAIN colors) /= 0

\* the first while loop: colors.set(name, value) for every match, in order
RECURSIVE parseColors(_, _, _)
parseColors(text, i, colors) ==
  IF i > Len(text) THEN colors
  ELSE IF colorRegex(text[i]) /\ notEmpty(text[i].name) /\ hexColor(text[i].target)
  THEN parseColors(text, i + 1, MapSet(colors, text[i].name, text[i].target))
  ELSE parseColors(text, i + 1, colors)

\* the second while loop: semantics.set(name, target) unless target starts with '#'
RECURSIVE parseSemantics(_, _, _)
parseSemantics(text, i, semantics) ==
  IF i > Len(text) THEN semantics
  ELSE IF semanticRegex(text[i]) /\ ~startsWith(text[i].target, "#")
  THEN parseSemantics(text, i + 1, MapSet(semantics, text[i].name, text[i].target))
  ELSE parseSemantics(text, i + 1, semantics)

ParseOk(p) == [status |-> "ok", value |-> p, error |-> NoError]

ParseThrew(err) == [status |-> "threw", value |-> NoPalette, error |-> err]

NotParsed == [status |-> "none", value |-> NoPalette, error |-> NoError]

\* parseThemeFile(filePath), readOk: whether fs.readFile succeeded
parseThemeFile(filePath, readOk, text) ==
  IF ~notEmpty(filePath) THEN ParseThrew(ThemeParseError("Error"))
  ELSE IF ~readOk THEN ParseThrew(FileOperationError("Error"))
  ELSE LET colors == parseColors(text, 1, EmptyMap)
           semantics == parseSemantics(text, 1, EmptyMap)
       IN IF ~colorsFound(colors, semantics)
          THEN ParseThrew(ThemeParseError("none"))
          ELSE ParseOk([colors |-> colors, semantics |-> semantics])

----------------------------------------------------------------------------
(* Mapping tables: excerpts of the tables of the source, in source order *)

\* THEME_DEFINITIONS
THEME_DEFINITIONS == <<
  [id |-> "modus-operandi", type |-> "light",
   sourceFile |-> "upstream/modus-operandi-theme.el"],
  [id |-> "modus-vivendi", type |-> "dark",
   sourceFile |-> "upstream/modus-vivendi-theme.el"],
  [id |-> "modus-operandi-deuteranopia", type |-> "light",
   sourceFile |-> "upstream/modus-operandi-deuteranopia-theme.el"],
  [id |-> "modus-vivendi-deuteranopia", type |-> "dark",
   sourceFile |-> "upstream/modus-vivendi-deuteranopia-theme.el"],
  [id |-> "modus-operandi-tritanopia", type |-> "light",
   sourceFile |-> "upstream/modus-operandi-tritanopia-theme.el"],
  [id |-> "modus-vivendi-tritanopia", type |-> "dark",
   sourceFile |-> "upstream/modus-vivendi-tritanopia-theme.el"],
  [id |-> "modus-operandi-tinted", type |-> "light",
   sourceFile |-> "upstream/modus-operandi-tinted-theme.el"],
  [id |-> "modus-vivendi-tinted", type |-> "dark",
   sourceFile |-> "upstream/modus-vivendi-tinted-theme.el"] >>

\* src/extension.ts: VS_CODE_UI_MAPPINGS
VS_CODE_UI_MAPPINGS == <<
  <<"foreground", <<fg_main>>>>,
  <<"disabledForeground", <<fg_dim>>>>,
  <<"list.dropBetweenBackground", <<empty>>>>,
  <<"minimap.foregroundOpacity", <<hex_00000080>>>> >>

\* src/extension.ts: TEXTMATE_SCOPE_MAPPINGS
TEXTMATE_SCOPE_MAPPINGS == <<
  <<"comment", <<fg_dim>>>>,
  <<"string", <<blue_warmer>>>>,
  <<"keyword", <<magenta_cooler>>>>,
  <<"constant.numeric", <<fg_main>>>> >>

\* src/extension.ts: ThemeGenerator.THEME_SPECIFIC_OVERRIDES
THEME_SPECIFIC_OVERRIDES ==
  ("comment" :> ("default" :> fg_dim
                 @@ "modus-operandi-tinted" :> red_faint
                 @@ "modus-vivendi-tinted" :> red_faint
                 @@ "modus-operandi-deuteranopia" :> blue_faint
                 @@ "modus-vivendi-deuteranopia" :> blue_faint
                 @@ "modus-operandi-tritanopia" :> magenta_faint
                 @@ "modus-vivendi-tritanopia" :> magenta_faint))
  @@ ("keyword" :> ("default" :> magenta_cooler
                    @@ "modus-operandi-deuteranopia" :> blue_intense
                    @@ "modus-vivendi-deuteranopia" :> blue_intense
                    @@ "modus-operandi-tritanopia" :> magenta_intense
                    @@ "modus-vivendi-tritanopia" :> magenta_intense))
  @@ ("string" :> ("default" :> blue_warmer
                   @@ "modus-operandi-deuteranopia" :> cyan
                   @@ "modus-vivendi-deuteranopia" :> cyan
                   @@ "modus-operandi-tritanopia" :> blue_cooler
                   @@ "modus-vivendi-tritanopia" :> blue_cooler))

\* report.yml: EDITOR
EDITOR == <<
  <<"contrastBorder", <<empty>>>>,
  <<"foreground", <<fg_main>>>>,
  <<"disabledForeground", <<fg_dim>>>> >>

\* report.yml: TEXTMATE
TEXTMATE == <<
  <<"comment", <<fg_dim>>>>,
  <<"string", <<blue_warmer>>>>,
  <<"keyword", <<magenta_cooler>>>> >>

\* report.yml: SEMANTIC
SEMANTIC == <<
  <<"namespace", <<empty>>>>,
  <<"comment", <<fg_dim>>>>,
  <<"string", <<blue_warmer>>>>,
  <<"keyword", <<magenta_cooler>>>>,
  <<"number", <<fg_main>>>> >>

\* report.yml: ThemeGenerator.overrides
ThemeGenerator_overrides ==
  ("namespace" :> ("" :> empty))
  @@ ("comment" :> ("modus-operandi-tinted" :> red_faint
                    @@ "modus-vivendi-tinted" :> red_faint
                    @@ "modus-operandi-deuteranopia" :> yellow_cooler
                    @@ "modus-vivendi-deuteranopia" :> yellow_cooler
                    @@ "modus-operandi-tritanopia" :> red_faint
                    @@ "modus-vivendi-tritanopia" :> red_faint))
  @@ ("string" :> ("modus-operandi-tritanopia" :> cyan
                   @@ "modus-vivendi-tritanopia" :> cyan))
  @@ ("keyword" :> ("modus-operandi-tritanopia" :> red_cooler
                    @@ "modus-vivendi-tritanopia" :> red_cooler))
  @@ ("number" :> ("" :> empty))

\* a mutant of overrideFor: the per-variant table is not looked at
overrideFor_ignored(table, scope, id) == undefined

\* overrides && overrides[id]: the override of the scope for the id, when truthy
overrideFor(table, scope, id) ==
  IF scope \in DOMAIN table /\ id \in DOMAIN table[scope] /\ notEmpty(table[scope][id])
  THEN table[scope][id]
  ELSE undefined

----------------------------------------------------------------------------
(* ThemeGenerator.generateTheme *)

NoTheme ==
  [id |-> "none", type |-> "none", colors |-> EmptyMap, tokenColors |-> <<>>,
   semanticTokenColors |-> EmptyMap, semanticHighlighting |-> {}]

GenOk(t) == [status |-> "ok", value |-> t, error |-> NoError]

GenThrew(err) == [status |-> "threw", value |-> NoTheme, error |-> err]

NotGenerated == [status |-> "none", value |-> NoTheme, error |-> NoError]

\* throw new ThemeGenerationError(`Missing color: ${colorName} in theme ${id}`)
MissingColor(colorName) == [ThemeGenerationError("none") EXCEPT !.missing = colorName]

\* getColor throws: if (!resolvedColor)
getColorThrows(colorName, p) ==
  resolveColor(colorName, p) = undefined \/ resolveColor(colorName, p) = empty

\* a mutant of getColor: an alias is returned as it is written
getColor_unresolved(colorName, p) ==
  IF MapHas(p.semantics, colorName) /\ ~MapHas(p.colors, colorName)
  THEN p.semantics[colorName]
  ELSE resolveColor(colorName, p)

\* getColor, when it returns
getColor(colorName, p) == resolveColor(colorName, p)

\* src/extension.ts: if (modusColors.length > 0)
entryMapped(modusColors) == Len(modusColors) > 0

\* report.yml: if (modusColors.length > 0 && modusColors[0] !== '')
entryMapped_report(modusColors) == Len(modusColors) > 0 /\ modusColors[1] /= empty

\* the loop over Object.entries(VS_CODE_UI_MAPPINGS), from entry i on
RECURSIVE uiColors(_, _, _, _)
uiColors(table, i, colors, p) ==
  IF i > Len(table) THEN [missing |-> undefined, threw |-> FALSE, colors |-> colors]
  ELSE IF ~entryMapped(table[i][2]) THEN uiColors(table, i + 1, colors, p)
  ELSE IF getColorThrows(table[i][2][1], p)
  THEN [missing |-> table[i][2][1], threw |-> TRUE, colors |-> colors]
  ELSE uiColors(table, i + 1, MapSet(colors, table[i][1], getColor(table[i][2][1], p)), p)

\* the loop over Object.entries(EDITOR), from entry i on
RECURSIVE uiColors_report(_, _, _, _)
uiColors_report(table, i, colors, p) ==
  IF i > Len(table) THEN [missing |-> undefined, threw |-> FALSE, colors |-> colors]
  ELSE IF ~entryMapped_report(table[i][2]) THEN uiColors_report(table, i + 1, colors, p)
  ELSE IF getColorThrows(table[i][2][1], p)
  THEN [missing |-> table[i][2][1], threw |-> TRUE, colors |-> colors]
  ELSE uiColors_report(table, i + 1,
                       MapSet(colors, table[i][1], getColor(table[i][2][1], p)), p)

\* scopesByColor.get(colorName).push(scope), the group made when it is new
addScope(groups, colorName, scope) ==
  IF \E k \in 1..Len(groups) : groups[k].colorName = colorName
  THEN [k \in 1..Len(groups) |->
          IF groups[k].colorName = colorName
          THEN [groups[k] EXCEPT !.scopes = Append(@, scope)]
          ELSE groups[k]]
  ELSE Append(groups, [colorName |-> colorName, scopes |-> <<scope>>])

\* src/extension.ts: the color name of a scope (undefined: no mapping found)
scopeColorName(scope, colorNames, id) ==
  IF overrideFor(THEME_SPECIFIC_OVERRIDES, scope, id) /= undefined
  THEN overrideFor(THEME_SPECIFIC_OVERRIDES, scope, id)
  ELSE IF overrideFor(THEME_SPECIFIC_OVERRIDES, scope, "default") /= undefined
  THEN overrideFor(THEME_SPECIFIC_OVERRIDES, scope, "default")
  ELSE IF Len(colorNames) > 0 THEN colorNames[1]
  ELSE undefined

\* report.yml: the color name of a scope or token (undefined: continue)
scopeColorName_report(scope, colorNames, id) ==
  IF overrideFor(ThemeGenerator_overrides, scope, id) /= undefined
  THEN overrideFor(ThemeGenerator_overrides, scope, id)
  ELSE IF Len(colorNames) > 0 /\ colorNames[1] /= empty THEN colorNames[1]
  ELSE undefined

\* src/extension.ts: the loop that fills scopesByColor, from entry i on
RECURSIVE scopesByColor(_, _, _, _)
scopesByColor(table, i, groups, id) ==
  IF i > Len(table) THEN groups
  ELSE IF table[i][1] \in {"comment", "punctuation.definition.comment"}
          \/ scopeColorName(table[i][1], table[i][2], id) = undefined
  THEN scopesByColor(table, i + 1, groups, id)
  ELSE scopesByColor(table, i + 1,
         addScope(groups, scopeColorName(table[i][1], table[i][2], id), table[i][1]), id)

\* report.yml: the loop of processTextMateTokens that fills scopesByColor
RECURSIVE scopesByColor_report(_, _, _, _)
scopesByColor_report(table, i, groups, id) ==
  IF i > Len(table) THEN groups
  ELSE IF scopeColorName_report(table[i][1], table[i][2], id) = undefined
  THEN scopesByColor_report(table, i + 1, groups, id)
  ELSE scopesByColor_report(table, i + 1,
         addScope(groups, scopeColorName_report(table[i][1], table[i][2], id),
                  table[i][1]), id)

\* src/extension.ts: fontStyle of a group ("none": undefined)
groupFontStyle(colorName, boldKeywords) ==
  IF boldKeywords /\ colorName \in {magenta_cooler, magenta_warmer} THEN "bold" ELSE "none"

\* the loop over scopesByColor.entries() that pushes the token rules
RECURSIVE groupRules(_, _, _, _, _)
groupRules(groups, i, rules, p, boldKeywords) ==
  IF i > Len(groups) THEN [missing |-> undefined, threw |-> FALSE, rules |-> rules]
  ELSE IF getColorThrows(groups[i].colorName, p)
  THEN [missing |-> groups[i].colorName, threw |-> TRUE, rules |-> rules]
  ELSE groupRules(groups, i + 1,
         Append(rules, [scope |-> groups[i].scopes,
                        foreground |-> getColor(groups[i].colorName, p),
                        fontStyle |-> groupFontStyle(groups[i].colorName, boldKeywords)]),
         p, boldKeywords)

\* src/extension.ts: processCommentTokens, the color name of the comment rule
commentColorName(themeId) ==
  IF overrideFor(THEME_SPECIFIC_OVERRIDES, "comment", themeId) /= undefined
  THEN overrideFor(THEME_SPECIFIC_OVERRIDES, "comment", themeId)
  ELSE IF overrideFor(THEME_SPECIFIC_OVERRIDES, "comment", "default") /= undefined
  THEN overrideFor(THEME_SPECIFIC_OVERRIDES, "comment", "default")
  ELSE fg_dim

\* src/extension.ts: the rule processCommentTokens pushes
commentRule(themeId, italicComments, p) ==
  [scope |-> <<"comment", "punctuation.definition.comment">>,
   foreground |-> getColor(commentColorName(themeId), p),
   fontStyle |-> IF italicComments THEN "italic" ELSE "none"]

\* report.yml: processSemanticTokens, from entry i on
RECURSIVE semanticTokens(_, _, _, _, _)
semanticTokens(table, i, tokens, id, p) ==
  IF i > Len(table) THEN [missing |-> undefined, threw |-> FALSE, tokens |-> tokens]
  ELSE LET colorName == scopeColorName_report(table[i][1], table[i][2], id)
       IN IF colorName = undefined THEN semanticTokens(table, i + 1, tokens, id, p)
          ELSE IF getColorThrows(colorName, p)
          THEN [missing |-> colorName, threw |-> TRUE, tokens |-> tokens]
          ELSE semanticTokens(table, i + 1,
                 MapSet(tokens, table[i][1], getColor(colorName, p)), id, p)

\* src/extension.ts: generateTheme(palette, definition, config)
generateTheme(p, definition, cfg) ==
  IF ~required(p) THEN GenThrew(ThemeGenerationError("Error"))
  ELSE LET ui == uiColors(VS_CODE_UI_MAPPINGS, 1, EmptyMap, p)
           groups == scopesByColor(TEXTMATE_SCOPE_MAPPINGS, 1, <<>>, definition.id)
           rules == groupRules(groups, 1,
                      <<commentRule(definition.id, cfg.italicComments, p)>>,
                      p, cfg.boldKeywords)
       IN IF ui.threw THEN GenThrew(MissingColor(ui.missing))
          ELSE IF getColorThrows(commentColorName(definition.id), p)
          THEN GenThrew(MissingColor(commentColorName(definition.id)))
          ELSE IF rules.threw THEN GenThrew(MissingColor(rules.missing))
          ELSE GenOk([id |-> definition.id, type |-> definition.type,
                      colors |-> ui.colors, tokenColors |-> rules.rules,
                      semanticTokenColors |-> EmptyMap,
                      semanticHighlighting |-> {cfg.useSemanticHighlighting}])

\* report.yml: generateTheme(palette, definition, config)
generateTheme_report(p, definition, cfg) ==
  IF ~required(p) THEN GenThrew(ThemeGenerationError("Error"))
  ELSE LET ui == uiColors_report(EDITOR, 1, EmptyMap, p)
           groups == scopesByColor_report(TEXTMATE, 1, <<>>, definition.id)
           rules == groupRules(groups, 1, <<>>, p, FALSE)
           tokens == semanticTokens(SEMANTIC, 1, EmptyMap, definition.id, p)
       IN IF ui.threw THEN GenThrew(MissingColor(ui.missing))
          ELSE IF rules.threw THEN GenThrew(MissingColor(rules.missing))
          ELSE IF tokens.threw THEN GenThrew(MissingColor(tokens.missing))
          ELSE GenOk([id |-> definition.id, type |-> definition.type,
                      colors |-> ui.colors, tokenColors |-> rules.rules,
                      semanticTokenColors |-> tokens.tokens,
                      semanticHighlighting |-> {}])

----------------------------------------------------------------------------
(* Parser-level specification: applyOverrides and resolveColor are applied *)
(* to palettes and overrides drawn from bounded sets.                      *)

MaxOverrides == 1

PaletteKeys == {n_a, n_b, n_c}

DirectValue(k) == IF k = n_b THEN hex2 ELSE hex1

SemanticKeys == {n_a, n_b}

SemanticTargets == {n_a, n_b, n_c, hex1}

Palettes ==
  { [colors |-> [k \in D |-> DirectValue(k)], semantics |-> s] :
      D \in SUBSET PaletteKeys,
      s \in UNION { [K -> SemanticTargets] : K \in SUBSET SemanticKeys } }

OverrideKeys == {n_a, n_b, empty}

OverrideValues == {hex3, bad_hex, empty, n_c, c_at_50}

\* Object.entries of the colorOverrides setting: keys are pairwise distinct
OverrideMaps ==
  { o \in UNION { [1..n -> OverrideKeys \X OverrideValues] : n \in 0..MaxOverrides } :
      \A i, j \in 1..Len(o) : i /= j => o[i][1] /= o[j][1] }

ResolveNames == {n_a, n_b, n_c, hex1, empty, a_at_25}

OpacityIdle ==
  /\ ohex = empty
  /\ oopacity = [numeric |-> FALSE, hundredths |-> 0]
  /\ blended = NotBlended

ExpandIdle ==
  /\ xroot = <<>>
  /\ xpath = empty
  /\ expanded = NotExpanded

LifeIdle ==
  /\ apc = "off"
  /\ aerror = NoError
  /\ disposables = <<>>
  /\ live = {}
  /\ deactivated = FALSE
  /\ runs = <<>>
  /\ edisk = <<>>

ExtraIdle ==
  /\ OpacityIdle
  /\ ExpandIdle
  /\ LifeIdle

SynthIdle ==
  /\ tdef = 0
  /\ tpal = NoPalette
  /\ tfinal = NotApplied
  /\ tres = NotGenerated

FileIdle ==
  /\ ftext = <<>>
  /\ fread = "none"
  /\ parsed = NotParsed
  /\ chain = NoPalette
  /\ nmerge = 0

ThemeIdle ==
  /\ build = "none"
  /\ content = <<>>
  /\ config = <<>>
  /\ gpc = "off"
  /\ pc = <<>>
  /\ palette = <<>>
  /\ finalPalette = <<>>
  /\ theme = <<>>
  /\ disk = <<>>
  /\ failure = <<>>
  /\ outcome = <<>>

InitParser ==
  /\ pal \in Palettes
  /\ ovr = <<>>
  /\ applied = NotApplied
  /\ rpal = NoPalette
  /\ rname = empty
  /\ current = empty
  /\ visited = {}
  /\ rpc = "idle"
  /\ resolved = undefined
  /\ ThemeIdle
  /\ FileIdle
  /\ SynthIdle
  /\ ExtraIdle

\* a call applyOverrides(pal, o)
ApplyOverrides(o) ==
  /\ applied.status = "none"
  /\ rpc = "idle"
  /\ ovr' = o
  /\ applied' = applyOverrides(pal, o)
  /\ pal' = inputAfter(pal, o)
  /\ UNCHANGED <<rpal, rname, current, visited, rpc, resolved>>
  /\ UNCHANGED themeVars
  /\ UNCHANGED fileVars
  /\ UNCHANGED synthVars
  /\ UNCHANGED extraVars

\* a call resolveColor(name, p), up to the head of the while loop
ResolveCall(name, p) ==
  /\ rpc = "idle"
  /\ rname' = name
  /\ rpal' = p
  /\ IF ~notEmpty(name) \/ ~required(p)
     THEN /\ rpc' = IF catchReturns THEN "done" ELSE "threw"
          /\ resolved' = undefined
          /\ UNCHANGED <<current, visited>>
     ELSE IF directFirst(name, p)
     THEN /\ rpc' = "done"
          /\ resolved' = p.colors[name]
          /\ UNCHANGED <<current, visited>>
     ELSE /\ rpc' = "loop"
          /\ current' = name
          /\ visited' = {}
          /\ UNCHANGED resolved
  /\ UNCHANGED <<pal, ovr, applied>>
  /\ UNCHANGED themeVars
  /\ UNCHANGED fileVars
  /\ UNCHANGED synthVars
  /\ UNCHANGED extraVars

\* one evaluation of the loop condition, and one iteration when it holds
ResolveLoop ==
  /\ rpc = "loop"
  /\ IF loopCondition(current, visited, rpal)
     THEN LET next == rpal.semantics[current]
          IN /\ visited' = visited \cup {current}
             /\ current' = next
             /\ IF hopResolves(next, rpal)
                THEN rpc' = "done" /\ resolved' = rpal.colors[next]
                ELSE UNCHANGED <<rpc, resolved>>
     ELSE /\ rpc' = "done"
          /\ resolved' = undefined
          /\ UNCHANGED <<current, visited>>
  /\ UNCHANGED <<pal, ovr, applied, rpal, rname>>
  /\ UNCHANGED themeVars
  /\ UNCHANGED fileVars
  /\ UNCHANGED synthVars
  /\ UNCHANGED extraVars

ResolvePalettes ==
  {pal, NULL} \cup (IF applied.status = "ok" THEN {applied.value} ELSE {})

NextParser ==
  \/ \E o \in OverrideMaps : ApplyOverrides(o)
  \/ \E name \in ResolveNames, p \in ResolvePalettes : ResolveCall(name, p)
  \/ ResolveLoop

SpecParser == InitParser /\ [][NextParser]_vars

----------------------------------------------------------------------------
(* ThemeService.generateThemes: one pipeline per theme definition, started *)
(* together under Promise.allSettled.  A pipeline stops at its awaits:     *)
(* fs.readFile inside parseThemeFile, and fs.writeFile.                    *)

MaxThemes == 2

\* the theme definitions of the model: the first MaxThemes of THEME_DEFINITIONS
Variants == 1..MaxThemes

\* context.extensionPath
extensionPath == <<"/", "e", "x", "t">>

\* source texts
TextFull == <<
  Form(fg_main, hex1, TRUE), Form(fg_dim, hex2, TRUE), Form(blue_warmer, hex3, TRUE),
  Form(magenta_cooler, hex1, TRUE), Form(cyan, blue_warmer, FALSE) >>

TextMissing == <<
  Form(fg_main, hex1, TRUE), Form(fg_dim, hex2, TRUE),
  Form(magenta_cooler, hex1, TRUE), Form(cyan, blue_warmer, FALSE) >>

TextAliasOnly == << Form(cyan, blue_warmer, FALSE) >>

Texts == {TextFull, TextMissing, TextAliasOnly}

SourceFiles == { THEME_DEFINITIONS[v].sourceFile : v \in Variants }

\* values of the modus.colorOverrides setting
ConfigOverrides ==
  { <<>>,
    << <<blue_warmer, hex3>> >>,
    << <<fg_dim, empty>> >>,
    << <<fg_main, bad_hex>> >> }

Configs ==
  { [colorOverrides |-> o, boldKeywords |-> t, italicComments |-> ~t,
     useSemanticHighlighting |-> TRUE] : o \in ConfigOverrides, t \in BOOLEAN }

Builds == {"src/extension.ts", "report.yml"}

OldFile == [state |-> "old", theme |-> NoTheme]

NoOutcome == [succeeded |-> 0, failed |-> 0, thrown |-> <<>>]

ParserIdle ==
  /\ pal = NoPalette
  /\ ovr = <<>>
  /\ applied = NotApplied
  /\ rpal = NoPalette
  /\ rname = empty
  /\ current = empty
  /\ visited = {}
  /\ rpc = "idle"
  /\ resolved = undefined

Init ==
  /\ build \in Builds
  /\ content \in [SourceFiles -> Texts]
  /\ config \in Configs
  /\ gpc = "idle"
  /\ pc = [v \in Variants |-> "idle"]
  /\ palette = [v \in Variants |-> NotParsed]
  /\ finalPalette = [v \in Variants |-> NotApplied]
  /\ theme = [v \in Variants |-> NotGenerated]
  /\ disk = [v \in Variants |-> OldFile]
  /\ failure = [v \in Variants |-> NoError]
  /\ outcome = NoOutcome
  /\ ParserIdle
  /\ FileIdle
  /\ SynthIdle
  /\ ExtraIdle

\* a mutant of sourcePath: every pipeline reads the first definition's file
sourcePath_first(themeDef) == THEME_DEFINITIONS[1].sourceFile

\* path.join(extensionPath, themeDef.sourceFile): the file the pipeline reads
sourcePath(themeDef) == themeDef.sourceFile

\* package.json: contributes.themes, the path of each entry
CONTRIBUTED_THEMES == <<
  [dir |-> "./themes", id |-> "modus-operandi", suffix |-> "-color-theme.json"],
  [dir |-> "./themes", id |-> "modus-operandi-tritanopia", suffix |-> "-color-theme.json"],
  [dir |-> "./themes", id |-> "modus-operandi-tinted", suffix |-> "-color-theme.json"],
  [dir |-> "./themes", id |-> "modus-operandi-deuteranopia", suffix |-> "-color-theme.json"],
  [dir |-> "./themes", id |-> "modus-vivendi", suffix |-> "-color-theme.json"],
  [dir |-> "./themes", id |-> "modus-vivendi-deuteranopia", suffix |-> "-color-theme.json"],
  [dir |-> "./themes", id |-> "modus-vivendi-tritanopia", suffix |-> "-color-theme.json"],
  [dir |-> "./themes", id |-> "modus-vivendi-tinted", suffix |-> "-color-theme.json"] >>

\* the file a contributed path names, relative to the extension's directory
contributedPath(entry) ==
  [entry EXCEPT !.dir = IF @ = "./themes" THEN "themes" ELSE @]

\* a mutant of outputPath: the file is named after the theme's type
outputPath_byType(themeDef) ==
  [dir |-> "themes", id |-> themeDef.type, suffix |-> "-color-theme.json"]

\* path.join(themesDir, `${themeDef.id}-color-theme.json`), relative to the
\* extension's directory
outputPath(themeDef) ==
  [dir |-> "themes", id |-> themeDef.id, suffix |-> "-color-theme.json"]

\* a mutant of allSettled: Promise.all, which settles on the first rejection
allSettled_all(positions) ==
  \/ \E v \in DOMAIN positions : positions[v] = "rejected"
  \/ \A v \in DOMAIN positions : positions[v] = "fulfilled"

\* Promise.allSettled: every promise fulfilled or rejected
allSettled(positions) ==
  \A v \in DOMAIN positions : positions[v] \in {"fulfilled", "rejected"}

\* a mutant of generate: with boldKeywords the keyword color is a bolder one
generate_boldKeywordColor(p, definition, cfg) ==
  IF cfg.boldKeywords
  THEN generateTheme_report(
         [colors |-> [k \in DOMAIN p.colors |->
                        IF k = magenta_cooler THEN hex3 ELSE p.colors[k]],
          semantics |-> p.semantics], definition, cfg)
  ELSE generateTheme_report(p, definition, cfg)

\* generateTheme of the revision b
generateBy(b, p, definition, cfg) ==
  IF b = "src/extension.ts"
  THEN generateTheme(p, definition, cfg)
  ELSE generateTheme_report(p, definition, cfg)

\* the build's generateTheme
generate(p, definition, cfg) == generateBy(build, p, definition, cfg)

\* generateThemes is called: the validations, up to await fs.mkdir
GenerateThemes ==
  /\ gpc = "idle"
  /\ IF ~notEmpty(extensionPath)
     THEN /\ gpc' = "threw"
          /\ outcome' = [outcome EXCEPT !.thrown = <<ThemeGenerationError("Error")>>]
     ELSE /\ gpc' = "mkdir"
          /\ UNCHANGED outcome
  /\ UNCHANGED <<build, content, config, pc, palette, finalPalette, theme, disk, failure>>
  /\ UNCHANGED parserVars
  /\ UNCHANGED fileVars
  /\ UNCHANGED synthVars
  /\ UNCHANGED extraVars

\* fs.mkdir settles; when it succeeded every pipeline runs up to await fs.readFile
MkdirDone(ok) ==
  /\ gpc = "mkdir"
  /\ IF ok
     THEN /\ gpc' = "awaiting"
          /\ pc' = [v \in Variants |-> "reading"]
          /\ UNCHANGED outcome
     ELSE /\ gpc' = "threw"
          /\ outcome' = [outcome EXCEPT !.thrown = <<FileOperationError("Error")>>]
          /\ UNCHANGED pc
  /\ UNCHANGED <<build, content, config, palette, finalPalette, theme, disk, failure>>
  /\ UNCHANGED parserVars
  /\ UNCHANGED fileVars
  /\ UNCHANGED synthVars
  /\ UNCHANGED extraVars

\* fs.readFile of variant v settles and parseThemeFile runs to its end
ReadDone(v, ok) ==
  /\ gpc = "awaiting"
  /\ pc[v] = "reading"
  /\ LET r == parseThemeFile(extensionPath \o <<"/">>, ok,
                              content[sourcePath(THEME_DEFINITIONS[v])])
     IN /\ palette' = [palette EXCEPT ![v] = r]
        /\ IF r.status = "ok"
           THEN /\ pc' = [pc EXCEPT ![v] = "parsed"]
                /\ UNCHANGED failure
           ELSE /\ pc' = [pc EXCEPT ![v] = "rejected"]
                /\ failure' = [failure EXCEPT ![v] = r.error]
  /\ UNCHANGED <<build, content, config, gpc, finalPalette, theme, disk, outcome>>
  /\ UNCHANGED parserVars
  /\ UNCHANGED fileVars
  /\ UNCHANGED synthVars
  /\ UNCHANGED extraVars

\* a mutant of reachesWrite: an exception of generateTheme does not leave the
\* try block
reachesWrite_always(t) == TRUE

\* the statements after generateTheme run only when it returned: a throw
\* goes to the catch block of the pipeline
reachesWrite(t) == t.status /= "threw"

\* the pipeline of v goes on: applyOverrides, generateTheme, up to await fs.writeFile
Continue(v) ==
  /\ gpc = "awaiting"
  /\ pc[v] = "parsed"
  /\ LET o == applyOverrides(palette[v].value, config.colorOverrides)
         t == generate(o.value, THEME_DEFINITIONS[v], config)
     IN /\ finalPalette' = [finalPalette EXCEPT ![v] = o]
        /\ IF o.status = "threw"
           THEN /\ pc' = [pc EXCEPT ![v] = "rejected"]
                /\ failure' = [failure EXCEPT ![v] = o.error]
                /\ UNCHANGED theme
           ELSE /\ theme' = [theme EXCEPT ![v] = t]
                /\ IF ~reachesWrite(t)
                   THEN /\ pc' = [pc EXCEPT ![v] = "rejected"]
                        /\ failure' = [failure EXCEPT ![v] = t.error]
                   ELSE /\ pc' = [pc EXCEPT ![v] = "writing"]
                        /\ UNCHANGED failure
  /\ UNCHANGED <<build, content, config, gpc, palette, disk, outcome>>
  /\ UNCHANGED parserVars
  /\ UNCHANGED fileVars
  /\ UNCHANGED synthVars
  /\ UNCHANGED extraVars

\* fs.writeFile of variant v settles
WriteDone(v, ok) ==
  /\ gpc = "awaiting"
  /\ pc[v] = "writing"
  /\ IF ok
     THEN /\ disk' = [disk EXCEPT ![v] = [state |-> "written", theme |-> theme[v].value]]
          /\ pc' = [pc EXCEPT ![v] = "fulfilled"]
          /\ UNCHANGED failure
     ELSE /\ pc' = [pc EXCEPT ![v] = "rejected"]
          /\ failure' = [failure EXCEPT ![v] = [NoError EXCEPT !.name = "Error"]]
          /\ UNCHANGED disk
  /\ UNCHANGED <<build, content, config, gpc, palette, finalPalette, theme, outcome>>
  /\ UNCHANGED parserVars
  /\ UNCHANGED fileVars
  /\ UNCHANGED synthVars
  /\ UNCHANGED extraVars

\* Promise.allSettled resolves: the counts, and the aggregate error
Settle ==
  /\ gpc = "awaiting"
  /\ allSettled(pc)
  /\ LET succeeded == Cardinality({ v \in Variants : pc[v] = "fulfilled" })
         failed == Cardinality({ v \in Variants : pc[v] = "rejected" })
     IN IF failed > 0
        THEN /\ gpc' = "threw"
             /\ outcome' = [succeeded |-> succeeded, failed |-> failed,
                            thrown |-> <<ThemeGenerationError("none")>>]
        ELSE /\ gpc' = "returned"
             /\ outcome' = [succeeded |-> succeeded, failed |-> failed, thrown |-> <<>>]
  /\ UNCHANGED <<build, content, config, pc, palette, finalPalette, theme, disk, failure>>
  /\ UNCHANGED parserVars
  /\ UNCHANGED fileVars
  /\ UNCHANGED synthVars
  /\ UNCHANGED extraVars

\* one step of the pipeline of variant v
Step(v) ==
  \/ \E ok \in BOOLEAN : ReadDone(v, ok)
  \/ Continue(v)
  \/ \E ok \in BOOLEAN : WriteDone(v, ok)

Next ==
  \/ GenerateThemes
  \/ \E ok \in BOOLEAN : MkdirDone(ok)
  \/ \E v \in Variants : Step(v)
  \/ Settle

Spec == Init /\ [][Next]_vars

----------------------------------------------------------------------------
(* Source-file specification: parseThemeFile is applied to a source text   *)
(* drawn from a bounded set, and applyOverrides to the palette it returns, *)
(* again and again.                                                        *)

MaxForms == 2

MaxMerges == 2

\* parenthesised pairs of a source text: (a "#111111") (b "#222222") (a "#12")
\* (a c) ( "#111111") (a #111111)
FileForms ==
  { Form(n_a, hex1, TRUE), Form(n_b, hex2, TRUE), Form(n_a, bad_hex, TRUE),
    Form(n_a, n_c, FALSE), Form(empty, hex1, TRUE), Form(n_a, hex1, FALSE) }

FileTexts == UNION { [1..n -> FileForms] : n \in 0..MaxForms }

InitFile ==
  /\ ftext \in FileTexts
  /\ fread = "none"
  /\ parsed = NotParsed
  /\ chain = NoPalette
  /\ nmerge = 0
  /\ ParserIdle
  /\ ThemeIdle
  /\ SynthIdle
  /\ ExtraIdle

\* a call parseThemeFile(sourcePath); ok: whether fs.readFile succeeds
ParseFile(ok) ==
  /\ parsed.status = "none"
  /\ parsed' = parseThemeFile(extensionPath \o <<"/">>, ok, ftext)
  /\ chain' = parsed'.value
  /\ fread' = IF ok THEN "ok" ELSE "failed"
  /\ UNCHANGED <<ftext, nmerge>>
  /\ UNCHANGED parserVars
  /\ UNCHANGED themeVars
  /\ UNCHANGED synthVars
  /\ UNCHANGED extraVars

\* a call applyOverrides(chain, o) whose result, when it returns, is held on
MergeOverrides(o) ==
  /\ parsed.status = "ok"
  /\ nmerge < MaxMerges
  /\ nmerge' = nmerge + 1
  /\ chain' = IF applyOverrides(chain, o).status = "ok"
              THEN applyOverrides(chain, o).value
              ELSE chain
  /\ UNCHANGED <<ftext, fread, parsed>>
  /\ UNCHANGED parserVars
  /\ UNCHANGED themeVars
  /\ UNCHANGED synthVars
  /\ UNCHANGED extraVars

NextFile ==
  \/ \E ok \in BOOLEAN : ParseFile(ok)
  \/ \E o \in OverrideMaps : MergeOverrides(o)

SpecFile == InitFile /\ [][NextFile]_vars

----------------------------------------------------------------------------
(* Synthesis specification: the pipeline of one variant after its source   *)
(* file was parsed, applyOverrides then generateTheme, on a theme          *)
(* definition, a palette and a configuration drawn from bounded sets.      *)

\* the color names the mapping tables of the model refer to
ThemeColorNames ==
  << fg_main, fg_dim, blue_warmer, magenta_cooler, red_faint, yellow_cooler, cyan,
     red_cooler, blue_faint, magenta_faint, blue_intense, magenta_intense, blue_cooler >>

\* the value of the i-th color name in the source file: one hex per name
ThemeHex(i) == << "#", "a", "0", "a", "0", "a", HexDigitSeq[i] >>

NameIndex(name) == CHOOSE i \in DOMAIN ThemeColorNames : ThemeColorNames[i] = name

NameSet == { ThemeColorNames[i] : i \in DOMAIN ThemeColorNames }

\* a parsed palette: every name, or every name but one, which is then absent
\* or an alias of fg-main
ThemePalettes ==
  { [colors |-> [k \in NameSet |-> ThemeHex(NameIndex(k))], semantics |-> EmptyMap] }
  \cup UNION { { [colors |-> [k \in NameSet \ {m} |-> ThemeHex(NameIndex(k))],
                  semantics |-> sem] : sem \in {EmptyMap, [k \in {m} |-> fg_main]} } :
                m \in NameSet \ {fg_main} }

\* values of the modus.colorOverrides setting, one keyed by a UI element id
ThemeOverrides ==
  { <<>>,
    << <<blue_warmer, hex3>> >>,
    << <<foreground, hex3>> >>,
    << <<foreground, fg_dim>> >> }

ThemeConfigs ==
  { [colorOverrides |-> o, boldKeywords |-> t, italicComments |-> u,
     useSemanticHighlighting |-> TRUE] :
       o \in ThemeOverrides, t \in BOOLEAN, u \in BOOLEAN }

InitTheme ==
  /\ build \in Builds
  /\ config \in ThemeConfigs
  /\ tdef \in DOMAIN THEME_DEFINITIONS
  /\ tpal \in ThemePalettes
  /\ tfinal = NotApplied
  /\ tres = NotGenerated
  /\ content = <<>>
  /\ gpc = "off"
  /\ pc = <<>>
  /\ palette = <<>>
  /\ finalPalette = <<>>
  /\ theme = <<>>
  /\ disk = <<>>
  /\ failure = <<>>
  /\ outcome = <<>>
  /\ ParserIdle
  /\ FileIdle
  /\ ExtraIdle

\* applyOverrides(palette, config.colorOverrides), then generateTheme
Synthesize ==
  /\ tfinal.status = "none"
  /\ tfinal' = applyOverrides(tpal, config.colorOverrides)
  /\ tres' = IF tfinal'.status = "ok"
             THEN generate(tfinal'.value, THEME_DEFINITIONS[tdef], config)
             ELSE NotGenerated
  /\ UNCHANGED <<tdef, tpal>>
  /\ UNCHANGED themeVars
  /\ UNCHANGED parserVars
  /\ UNCHANGED fileVars
  /\ UNCHANGED extraVars

NextTheme == Synthesize

SpecTheme == InitTheme /\ [][NextTheme]_vars

----------------------------------------------------------------------------
(* Opacity specification: applyOpacity is applied to a hex string and an   *)
(* opacity drawn from bounded sets.                                        *)

\* the largest opacity of the model, in hundredths: 1.01, just out of range
MaxHundredths == 101

\* '#336699', '336699', '#33669980', '#369', '#ABCDEF', '#33669g', '', '#00ff7f'
OpacityHexes ==
  { <<"#", "3", "3", "6", "6", "9", "9">>,
    <<"3", "3", "6", "6", "9", "9">>,
    <<"#", "3", "3", "6", "6", "9", "9", "8", "0">>,
    <<"#", "3", "6", "9">>,
    <<"#", "A", "B", "C", "D", "E", "F">>,
    <<"#", "3", "3", "6", "6", "9", "g">>,
    empty,
    <<"#", "0", "0", "f", "f", "7", "f">> }

\* opacities: -0.01, 0, 0.01, ... and one value that is no number
Opacities ==
  { [numeric |-> TRUE, hundredths |-> h] : h \in (0 - 1)..MaxHundredths }
  \cup { [numeric |-> FALSE, hundredths |-> 0] }

InitOpacity ==
  /\ ohex \in OpacityHexes
  /\ oopacity \in Opacities
  /\ blended = NotBlended
  /\ ExpandIdle
  /\ LifeIdle
  /\ ParserIdle
  /\ ThemeIdle
  /\ FileIdle
  /\ SynthIdle

\* a call applyOpacity(ohex, oopacity)
ApplyOpacity ==
  /\ blended.status = "none"
  /\ blended' = applyOpacity(ohex, oopacity)
  /\ UNCHANGED <<ohex, oopacity>>
  /\ UNCHANGED expandVars
  /\ UNCHANGED lifeVars
  /\ UNCHANGED parserVars
  /\ UNCHANGED themeVars
  /\ UNCHANGED fileVars
  /\ UNCHANGED synthVars

NextOpacity == ApplyOpacity

SpecOpacity == InitOpacity /\ [][NextOpacity]_vars

----------------------------------------------------------------------------
(* Expansion specification: expand is applied to a root path and a nested  *)
(* configuration tree drawn from bounded sets.                             *)

\* the depth of nesting below the root's property a
MaxDepth == 2

\* leaves: 'x', 'y', and a value that is neither a string nor an object
ExpandLeaves == { StringLeaf(<<"x">>), StringLeaf(<<"y">>), OtherLeaf }

\* property lists over the keys b, c in this order: b holds a node of T, c a leaf
ExpandProps(T) ==
  { <<>> }
  \cup { << <<n_b, t>> >> : t \in T }
  \cup { << <<n_c, l>> >> : l \in ExpandLeaves }
  \cup { << <<n_b, t>>, <<n_c, l>> >> : t \in T, l \in ExpandLeaves }

\* the trees of depth at most d
RECURSIVE ExpandTrees(_)
ExpandTrees(d) ==
  IF d = 0 THEN ExpandLeaves
  ELSE ExpandLeaves \cup { ObjectNode(props) : props \in ExpandProps(ExpandTrees(d - 1)) }

\* configuration trees: {a: t} and {a: t, b: leaf}
ExpandRoots ==
  { ObjectNode(<< <<n_a, t>> >>) : t \in ExpandTrees(MaxDepth) }
  \cup { ObjectNode(<< <<n_a, t>>, <<n_b, l>> >>) :
           t \in ExpandTrees(MaxDepth), l \in ExpandLeaves }

\* root paths: '' and 'r'
ExpandRootPaths == { empty, <<"r">> }

InitExpand ==
  /\ xroot \in ExpandRoots
  /\ xpath \in ExpandRootPaths
  /\ expanded = NotExpanded
  /\ OpacityIdle
  /\ LifeIdle
  /\ ParserIdle
  /\ ThemeIdle
  /\ FileIdle
  /\ SynthIdle

\* a call expand(xpath, xroot)
Expand ==
  /\ expanded.status = "none"
  /\ expanded' = ExpandOk(expand(xpath, xroot))
  /\ UNCHANGED <<xroot, xpath>>
  /\ UNCHANGED opacityVars
  /\ UNCHANGED lifeVars
  /\ UNCHANGED parserVars
  /\ UNCHANGED themeVars
  /\ UNCHANGED fileVars
  /\ UNCHANGED synthVars

NextExpand == Expand

SpecExpand == InitExpand /\ [][NextExpand]_vars

----------------------------------------------------------------------------
(* Extension specification: activate, the configuration-change listener,   *)
(* the generateThemes runs they start, and deactivate.  A run is a record: *)
(* its configuration, its position, the position of each variant's         *)
(* pipeline, the error it threw, and whether it was started after          *)
(* deactivate().  The steps of a run are the settlements of its awaits:    *)
(* fs.mkdir, fs.readFile of each variant (the pipeline then runs on to     *)
(* await fs.writeFile, or rejects), fs.writeFile of each variant, and      *)
(* Promise.allSettled.                                                     *)

\* how many configuration changes start a regeneration
MaxChanges == 2

\* the runs: the initial one and one per regeneration
RunIds == 1..(MaxChanges + 1)

\* the theme definitions whose pipelines the extension specification follows:
\* the first one (the pipelines of a run share nothing and write to different
\* files; their interleaving within one run is the subject of Spec)
LifeVariants == {1}

\* class ConfigurationError: code CONFIGURATION_ERROR
ConfigurationError ==
  [name |-> "ConfigurationError", code |-> "CONFIGURATION_ERROR", cause |-> "Error",
   missing |-> undefined]

\* values of the modus.* settings
ExtensionConfigs ==
  { [colorOverrides |-> o, boldKeywords |-> FALSE, italicComments |-> TRUE,
     useSemanticHighlighting |-> TRUE] : o \in { <<>>, << <<blue_warmer, hex3>> >> } }

\* the text of every source file: a direct entry for each color name
ExtensionText ==
  [i \in DOMAIN ThemeColorNames |-> Form(ThemeColorNames[i], ThemeHex(i), TRUE)]

OldDiskFile == [state |-> "old", theme |-> NoTheme, run |-> 0]

\* generateThemes(extensionPath, cfg) is called: the validations, up to await fs.mkdir
newRun(cfg, late) ==
  [cfg |-> cfg, late |-> late,
   gpc |-> IF notEmpty(extensionPath) THEN "mkdir" ELSE "threw",
   pc |-> [v \in LifeVariants |-> "idle"],
   thrown |-> IF notEmpty(extensionPath) THEN NoError ELSE ThemeGenerationError("Error")]

\* the pipeline of variant v under cfg in revision b, from the settlement of
\* fs.readFile up to await fs.writeFile: parseThemeFile, applyOverrides,
\* generateTheme
pipelineOf(b, cfg, v, readOk) ==
  LET r == parseThemeFile(extensionPath \o <<"/">>, readOk, ExtensionText)
      o == applyOverrides(r.value, cfg.colorOverrides)
      t == generateBy(b, o.value, THEME_DEFINITIONS[v], cfg)
  IN IF r.status /= "ok" THEN [status |-> "rejected", error |-> r.error, theme |-> NoTheme]
     ELSE IF o.status = "threw"
     THEN [status |-> "rejected", error |-> o.error, theme |-> NoTheme]
     ELSE IF ~reachesWrite(t)
     THEN [status |-> "rejected", error |-> t.error, theme |-> NoTheme]
     ELSE [status |-> "writing", error |-> NoError, theme |-> t.value]

\* pipelineOf, tabulated
PipelineTable ==
  [b \in Builds |-> [cfg \in ExtensionConfigs |-> [v \in LifeVariants |->
     [readOk \in BOOLEAN |-> pipelineOf(b, cfg, v, readOk)]]]]

\* the pipeline of variant v under cfg in the build
pipeline(cfg, v, readOk) == PipelineTable[build][cfg][v][readOk]

\* a mutant of activationRegisters: the registrations are made whatever the
\* initial generateThemes did
activationRegisters_always(run) == TRUE

\* activate goes on to its registrations only when await generateThemes returned
activationRegisters(run) == run.gpc = "returned"

\* ModusThemesExtension.deactivate: every pushed disposable is disposed
ModusThemesExtension_deactivate(registrations, pushed) ==
  registrations \ { pushed[i] : i \in DOMAIN pushed }

\* the exported deactivate(): its body is a comment
deactivate(registrations, pushed) == registrations

\* the variables of the other specifications, and the revision that runs
lifeFrame ==
  <<build, content, gpc, pc, palette, finalPalette, theme, disk, failure, outcome,
    parserVars, fileVars, synthVars, opacityVars, expandVars>>

InitExtension ==
  /\ build \in Builds
  /\ content = <<>>
  /\ config \in ExtensionConfigs
  /\ gpc = "off"
  /\ pc = <<>>
  /\ palette = <<>>
  /\ finalPalette = <<>>
  /\ theme = <<>>
  /\ disk = <<>>
  /\ failure = <<>>
  /\ outcome = <<>>
  /\ apc = "idle"
  /\ aerror = NoError
  /\ disposables = <<>>
  /\ live = {}
  /\ deactivated = FALSE
  /\ runs = <<>>
  /\ edisk = [v \in LifeVariants |-> OldDiskFile]
  /\ ParserIdle
  /\ FileIdle
  /\ SynthIdle
  /\ OpacityIdle
  /\ ExpandIdle

\* VS Code calls the exported activate: getConfiguration, then generateThemes
\* up to its first await; loadOk: whether reading the settings succeeds
Activate(loadOk) ==
  /\ apc = "idle"
  /\ IF loadOk
     THEN /\ apc' = "initial"
          /\ runs' = << newRun(config, FALSE) >>
          /\ UNCHANGED aerror
     ELSE /\ apc' = "rejected"
          /\ aerror' = ConfigurationError
          /\ UNCHANGED runs
  /\ UNCHANGED <<disposables, live, deactivated, edisk>>
  /\ UNCHANGED config
  /\ UNCHANGED lifeFrame

\* await generateThemes settles in activate: the registrations, or the catch
\* block, which rethrows
ActivateResume ==
  /\ apc = "initial"
  /\ runs[1].gpc \in {"returned", "threw"}
  /\ IF activationRegisters(runs[1])
     THEN /\ apc' = "activated"
          /\ disposables' = <<"listener", "command">>
          /\ live' = live \cup {"listener", "command"}
          /\ UNCHANGED aerror
     ELSE /\ apc' = "rejected"
          /\ aerror' = runs[1].thrown
          /\ UNCHANGED <<disposables, live>>
  /\ UNCHANGED <<deactivated, runs, edisk>>
  /\ UNCHANGED config
  /\ UNCHANGED lifeFrame

\* fs.mkdir of run r settles; when it succeeded every pipeline runs up to
\* await fs.readFile
RunMkdirDone(r, ok) ==
  /\ r \in DOMAIN runs
  /\ runs[r].gpc = "mkdir"
  /\ runs' = [runs EXCEPT ![r] =
                IF ok
                THEN [@ EXCEPT !.gpc = "awaiting", !.pc = [v \in LifeVariants |-> "reading"]]
                ELSE [@ EXCEPT !.gpc = "threw", !.thrown = FileOperationError("Error")]]
  /\ UNCHANGED <<apc, aerror, disposables, live, deactivated, edisk>>
  /\ UNCHANGED config
  /\ UNCHANGED lifeFrame

\* fs.readFile of variant v settles in run r
RunReadDone(r, v, ok) ==
  /\ r \in DOMAIN runs
  /\ runs[r].gpc = "awaiting"
  /\ runs[r].pc[v] = "reading"
  /\ runs' = [runs EXCEPT ![r].pc[v] = pipeline(runs[r].cfg, v, ok).status]
  /\ UNCHANGED <<apc, aerror, disposables, live, deactivated, edisk>>
  /\ UNCHANGED config
  /\ UNCHANGED lifeFrame

\* fs.writeFile of variant v settles in run r
RunWriteDone(r, v, ok) ==
  /\ r \in DOMAIN runs
  /\ runs[r].gpc = "awaiting"
  /\ runs[r].pc[v] = "writing"
  /\ IF ok
     THEN /\ edisk' = [edisk EXCEPT ![v] =
                         [state |-> "written",
                          theme |-> pipeline(runs[r].cfg, v, TRUE).theme, run |-> r]]
          /\ runs' = [runs EXCEPT ![r].pc[v] = "fulfilled"]
     ELSE /\ runs' = [runs EXCEPT ![r].pc[v] = "rejected"]
          /\ UNCHANGED edisk
  /\ UNCHANGED <<apc, aerror, disposables, live, deactivated>>
  /\ UNCHANGED config
  /\ UNCHANGED lifeFrame

\* Promise.allSettled of run r resolves: the aggregate error when a variant failed
RunSettle(r) ==
  /\ r \in DOMAIN runs
  /\ runs[r].gpc = "awaiting"
  /\ allSettled(runs[r].pc)
  /\ runs' = [runs EXCEPT ![r] =
                IF \E v \in LifeVariants : runs[r].pc[v] = "rejected"
                THEN [@ EXCEPT !.gpc = "threw", !.thrown = ThemeGenerationError("none")]
                ELSE [@ EXCEPT !.gpc = "returned"]]
  /\ UNCHANGED <<apc, aerror, disposables, live, deactivated, edisk>>
  /\ UNCHANGED config
  /\ UNCHANGED lifeFrame

\* the settings change to cfg and onDidChangeConfiguration fires; affects:
\* event.affectsConfiguration('modus'); loadOk: whether getConfiguration
\* succeeds.  The listener, while registered, calls the handler, which calls
\* generateThemes and is not awaited.
ConfigurationChanged(cfg, affects, loadOk) ==
  /\ apc /= "idle"
  /\ affects => cfg /= config
  /\ config' = IF affects THEN cfg ELSE config
  /\ IF "listener" \in live /\ affects /\ loadOk
     THEN /\ Len(runs) <= MaxChanges
          /\ runs' = Append(runs, newRun(cfg, deactivated))
     ELSE UNCHANGED runs
  /\ UNCHANGED <<apc, aerror, disposables, live, deactivated, edisk>>
  /\ UNCHANGED lifeFrame

\* VS Code calls the exported deactivate()
Deactivate ==
  /\ apc = "activated"
  /\ ~deactivated
  /\ deactivated' = TRUE
  /\ live' = deactivate(live, disposables)
  /\ UNCHANGED <<apc, aerror, disposables, runs, edisk>>
  /\ UNCHANGED config
  /\ UNCHANGED lifeFrame

\* one step of run r
RunStep(r) ==
  \/ \E ok \in BOOLEAN : RunMkdirDone(r, ok)
  \/ \E v \in LifeVariants, ok \in BOOLEAN : RunReadDone(r, v, ok)
  \/ \E v \in LifeVariants, ok \in BOOLEAN : RunWriteDone(r, v, ok)
  \/ RunSettle(r)

NextExtension ==
  \/ \E loadOk \in BOOLEAN : Activate(loadOk)
  \/ ActivateResume
  \/ \E r \in RunIds : RunStep(r)
  \/ \E cfg \in ExtensionConfigs, affects \in BOOLEAN, loadOk \in BOOLEAN :
       ConfigurationChanged(cfg, affects, loadOk)
  \/ Deactivate

SpecExtension == InitExtension /\ [][NextExtension]_vars

----------------------------------------------------------------------------
(* Claims about generateTheme and generateThemes, checked under Spec *)

\* generateTheme has run for variant v
Generated(v) == theme[v].status /= "none"

\* the table of UI-element mappings of the build
UiTable == IF build = "src/extension.ts" THEN VS_CODE_UI_MAPPINGS ELSE EDITOR

\* the color references generateTheme resolves for variant v
References(v) ==
  LET id == THEME_DEFINITIONS[v].id
      ui == { UiTable[i][2][1] : i \in { j \in 1..Len(UiTable) : Len(UiTable[j][2]) > 0 } }
      groups == IF build = "src/extension.ts"
                THEN scopesByColor(TEXTMATE_SCOPE_MAPPINGS, 1, <<>>, id)
                ELSE scopesByColor_report(TEXTMATE, 1, <<>>, id)
      tokens == { groups[k].colorName : k \in 1..Len(groups) }
      more == IF build = "src/extension.ts"
              THEN {commentColorName(id)}
              ELSE { scopeColorName_report(SEMANTIC[i][1], SEMANTIC[i][2], id) :
                       i \in 1..Len(SEMANTIC) } \ {undefined}
  IN ui \cup tokens \cup more

\* C1: when the reference of one mapping entry cannot be resolved, the entry
\* is dropped and the theme is still produced with all other entries.
C1_UnresolvableDropped ==
  \A v \in Variants :
    Generated(v) =>
      /\ ~(/\ theme[v].status = "threw"
           /\ notEmpty(theme[v].error.missing)
           /\ theme[v].error.missing \in References(v))
      /\ theme[v].status = "ok" =>
           \A i \in 1..Len(UiTable) :
             (/\ Len(UiTable[i][2]) > 0
              /\ ~getColorThrows(UiTable[i][2][1], finalPalette[v].value))
             => MapHas(theme[v].value.colors, UiTable[i][1])

\* C2: a UI-element mapping whose reference is empty or absent raises no
\* error, and the color table of the theme has no key for the element.
C2_EmptySkipped ==
  \A v \in Variants :
    Generated(v) =>
      /\ ~(theme[v].status = "threw" /\ theme[v].error.missing = empty)
      /\ theme[v].status = "ok" =>
           \A i \in 1..Len(UiTable) :
             (Len(UiTable[i][2]) = 0 \/ UiTable[i][2][1] = empty)
             => ~MapHas(theme[v].value.colors, UiTable[i][1])

\* what the pipeline of v computes from its own source file and the configuration
OwnPalette(v) ==
  parseThemeFile(extensionPath \o <<"/">>, TRUE, content[THEME_DEFINITIONS[v].sourceFile])

OwnFinalPalette(v) == applyOverrides(OwnPalette(v).value, config.colorOverrides)

OwnTheme(v) == generate(OwnFinalPalette(v).value, THEME_DEFINITIONS[v], config)

\* the pipeline of v has settled
Settled(v) == pc[v] \in {"fulfilled", "rejected"}

\* C3: a failure is fatal only to the variant it happens in: a variant is
\* rejected only by a failure of its own read, parse, merge, generation or
\* write; while it has not settled its next step can be taken whatever the
\* other pipelines did; and when it is fulfilled its theme file holds the theme
\* generated from its own source file.
C3_FailureIsolated ==
  \A v \in Variants :
    /\ pc[v] = "rejected" =>
         \/ failure[v].name = "FileOperationError" /\ palette[v].status = "threw"
         \/ OwnPalette(v).status = "threw" /\ failure[v] = OwnPalette(v).error
         \/ OwnFinalPalette(v).status = "threw" /\ failure[v] = OwnFinalPalette(v).error
         \/ OwnTheme(v).status = "threw" /\ failure[v] = OwnTheme(v).error
         \/ failure[v].name = "Error" /\ theme[v] = OwnTheme(v) /\ theme[v].status = "ok"
    /\ (gpc = "awaiting" /\ ~Settled(v)) => ENABLED Step(v)
    /\ pc[v] = "fulfilled" =>
         /\ disk[v].state = "written"
         /\ OwnTheme(v).status = "ok"
         /\ disk[v].theme = OwnTheme(v).value

C3_Witness ==
  /\ pc[1] = "rejected"
  /\ palette[1].status = "threw"
  /\ pc[2] = "fulfilled"
  /\ disk[2].state = "written"
  /\ disk[2].theme.id = "modus-vivendi"

\* generateThemes has returned or thrown after starting the pipelines
Finished == gpc \in {"returned", "threw"} /\ \E v \in Variants : pc[v] /= "idle"

\* C4: a ThemeGenerationError is surfaced only if a variant failed; when a
\* variant failed exactly one aggregate ThemeGenerationError is surfaced, and
\* only after every pipeline has settled; the counts sum to the number of
\* theme definitions.
C4_AggregateError ==
  /\ (\E k \in 1..Len(outcome.thrown) : outcome.thrown[k].name = "ThemeGenerationError")
       => \E v \in Variants : pc[v] = "rejected"
  /\ Finished =>
       /\ \A v \in Variants : Settled(v)
       /\ outcome.succeeded = Cardinality({ v \in Variants : pc[v] = "fulfilled" })
       /\ outcome.failed = Cardinality({ v \in Variants : pc[v] = "rejected" })
       /\ outcome.succeeded + outcome.failed = MaxThemes
       /\ (\E v \in Variants : pc[v] = "rejected")
            => outcome.thrown = <<ThemeGenerationError("none")>>
       /\ (\A v \in Variants : pc[v] = "fulfilled")
            => gpc = "returned" /\ outcome.thrown = <<>>
  /\ ((\E v \in Variants : pc[v] = "rejected") /\ \E v \in Variants : ~Settled(v))
       => gpc = "awaiting" /\ outcome.thrown = <<>>

C4_Witness ==
  /\ gpc = "threw"
  /\ outcome.thrown = <<ThemeGenerationError("none")>>
  /\ outcome.failed = 1
  /\ outcome.succeeded = MaxThemes - 1

----------------------------------------------------------------------------
(* Claims about the parser, checked under SpecParser *)

\* resolveColor has returned for a palette (not for null)
Returned == rpc = "done" /\ rpal /= NULL /\ notEmpty(rname)

\* the override entry for key, when applyOverrides got one
OverrideFor(key) == { ovr[i][2] : i \in { j \in 1..Len(ovr) : ovr[j][1] = key } }

\* resolveColor was called on the palette applyOverrides returned
ResolvedMerged == Returned /\ applied.status = "ok" /\ rpal = applied.value

\* C5: resolveColor terminates on every palette: each iteration of the walk
\* adds a new key of the semantic map to visited, so there are at most as many
\* iterations as the map has keys, and a walk that comes back to a name it
\* has visited ends with undefined.
C5_ResolveTerminates ==
  /\ [][(rpc = "loop" /\ rpc' = "loop")
          => /\ visited' /= visited
             /\ visited \subseteq visited'
             /\ visited' \subseteq DOMAIN rpal.semantics]_vars
  /\ []((rpc = "done" /\ current \in visited) => resolved = undefined)

C5_Witness ==
  /\ Returned
  /\ visited = {n_a, n_b}
  /\ current \in visited
  /\ resolved = undefined

\* C6: resolving a literal #RRGGBB reference returns that same string,
\* whatever the palette holds.
C6_LiteralVerbatim == (Returned /\ hexColor(rname)) => resolved = rname

\* where the alias chain from name ends: on the first name that is a key of the
\* direct map, or on a literal hex value (at most n hops)
RECURSIVE ChainTerminus(_, _, _)
ChainTerminus(name, p, n) ==
  IF MapHas(p.colors, name) THEN p.colors[name]
  ELSE IF hexColor(name) THEN name
  ELSE IF n = 0 \/ ~MapHas(p.semantics, name) THEN undefined
  ELSE ChainTerminus(p.semantics[name], p, n - 1)

C8_OverrideWins ==
  \A h \in OverrideFor(rname) :
    (ResolvedMerged /\ hexColor(h)) => resolved = h

C8_Witness ==
  /\ ResolvedMerged
  /\ rname = n_a
  /\ MapHas(pal.colors, n_a)
  /\ MapHas(pal.semantics, n_a)
  /\ OverrideFor(n_a) = {hex3}
  /\ resolved = hex3

\* C9: an override value is a color when it starts with '#' and an alias
\* otherwise, each map is merged on its own, a name in both maps resolves to
\* its direct value, and so an alias override of a name that has a direct
\* entry does not change what the name resolves to.
C9_DirectAuthoritative ==
  /\ applied.status = "ok" =>
       \A i \in 1..Len(ovr) :
         LET key == ovr[i][1]
             value == ovr[i][2]
             after == applied.value
         IN IF startsWith(value, "#")
            THEN /\ MapHas(after.semantics, key) = MapHas(pal.semantics, key)
                 /\ MapHas(after.semantics, key) => after.semantics[key] = pal.semantics[key]
                 /\ hexColor(value) => after.colors[key] = value
            ELSE /\ after.semantics[key] = value
                 /\ MapHas(after.colors, key) = MapHas(pal.colors, key)
                 /\ MapHas(after.colors, key) => after.colors[key] = pal.colors[key]
  /\ (Returned /\ MapHas(rpal.colors, rname) /\ MapHas(rpal.semantics, rname))
       => resolved = rpal.colors[rname]
  /\ \A value \in OverrideFor(rname) :
       (ResolvedMerged /\ ~startsWith(value, "#") /\ MapHas(pal.colors, rname))
         => resolved = pal.colors[rname]

C9_Witness ==
  /\ ResolvedMerged
  /\ rname = n_b
  /\ OverrideFor(n_b) = {n_c}
  /\ MapHas(pal.colors, n_b)
  /\ MapHas(pal.colors, n_c)
  /\ applied.value.semantics[n_b] = n_c
  /\ resolved = hex2

\* C10: applyOverrides never fails because of a malformed entry: the entry is
\* skipped and every well-formed entry is still applied.
C10_MalformedSkipped ==
  applied.status /= "none" =>
    /\ applied.status = "ok"
    /\ \A i \in 1..Len(ovr) :
         /\ hexColor(ovr[i][2]) /\ notEmpty(ovr[i][1])
              => applied.value.colors[ovr[i][1]] = ovr[i][2]
         /\ (notEmpty(ovr[i][2]) /\ ~startsWith(ovr[i][2], "#") /\ notEmpty(ovr[i][1]))
              => applied.value.semantics[ovr[i][1]] = ovr[i][2]

\* C19: resolveColor never throws: it returns a hex color of the palette or
\* the value undefined, and undefined for an empty name, for a null or
\* undefined palette and for a name that neither map holds.
C19_ResolveNeverThrows ==
  /\ rpc /= "threw"
  /\ rpc = "done" =>
       /\ \/ resolved = undefined
          \/ /\ rpal /= NULL
             /\ hexColor(resolved)
             /\ \E k \in DOMAIN rpal.colors : rpal.colors[k] = resolved
       /\ (rname = empty \/ rpal = NULL) => resolved = undefined
       /\ (rpal /= NULL /\ ~MapHas(rpal.colors, rname) /\ ~MapHas(rpal.semantics, rname))
            => resolved = undefined

C19_Witness ==
  /\ rpc = "done"
  /\ rpal = NULL
  /\ rname = n_a
  /\ resolved = undefined

AtIndex(s) ==
  IF \E i \in 1..Len(s) : s[i] = "@"
  THEN CHOOSE i \in 1..Len(s) : s[i] = "@" /\ \A j \in 1..(i - 1) : s[j] /= "@"
  ELSE 0

\* the reference is name@0.dd
HasOpacity(s) ==
  /\ AtIndex(s) > 1
  /\ Len(s) = AtIndex(s) + 4
  /\ s[AtIndex(s) + 1] = "0"
  /\ s[AtIndex(s) + 2] = "."
  /\ s[AtIndex(s) + 3] \in Digits
  /\ s[AtIndex(s) + 4] \in Digits

BaseName(s) == SubSeq(s, 1, AtIndex(s) - 1)

DigitValue(ch) == CHOOSE n \in 0..9 : HexDigitSeq[n + 1] = ch

\* the opacity of name@0.dd, in hundredths
Hundredths(s) == 10 * DigitValue(s[AtIndex(s) + 3]) + DigitValue(s[AtIndex(s) + 4])

\* the 6-digit hex followed by the two hex digits of round(opacity * 255)
WithAlpha(hex, hundredths) ==
  LET alpha == (hundredths * 255 + 50) \div 100
  IN hex \o << HexDigitSeq[(alpha \div 16) + 1], HexDigitSeq[(alpha % 16) + 1] >>

\* C15: a reference name@o resolves to the 6-digit hex of the base name
\* followed by the two-digit hex alpha round(o*255), when it is given to
\* resolveColor and when it is the value of an override.
C15_OpacitySuffix ==
  /\ (/\ Returned
       /\ HasOpacity(rname)
       /\ hexColor(resolveColor(BaseName(rname), rpal)))
      => resolved = WithAlpha(resolveColor(BaseName(rname), rpal), Hundredths(rname))
  /\ \A value \in OverrideFor(rname) :
       (/\ ResolvedMerged
        /\ ~MapHas(rpal.colors, rname)
        /\ HasOpacity(value)
        /\ hexColor(resolveColor(BaseName(value), rpal)))
       => resolved = WithAlpha(resolveColor(BaseName(value), rpal), Hundredths(value))

----------------------------------------------------------------------------
(* Claims about parseThemeFile and the palettes it yields, checked under   *)
(* SpecFile                                                                *)

\* the pairs of the text that are direct entries: (name "#RRGGBB")
DirectEntries(text) ==
  { i \in 1..Len(text) :
      text[i].quoted /\ IsNameToken(text[i].name) /\ hexColor(text[i].target) }

\* the pairs of the text that are alias entries: (name alias)
AliasEntries(text) ==
  { i \in 1..Len(text) :
      ~text[i].quoted /\ IsNameToken(text[i].name) /\ IsNameToken(text[i].target) }

\* C11: on a source text that was read and holds no (name "#RRGGBB") entry,
\* parseThemeFile fails with a ThemeParseError, valid (name alias) entries or
\* not; a palette is returned only when a direct color was found, and then
\* it holds one.
C11_EmptyPaletteFatal ==
  /\ (fread = "ok" /\ DirectEntries(ftext) = {})
       => /\ parsed.status = "threw"
          /\ parsed.error.name = "ThemeParseError"
          /\ parsed.error.code = "THEME_PARSE_ERROR"
  /\ parsed.status = "ok"
       => /\ DirectEntries(ftext) /= {}
          /\ DOMAIN parsed.value.colors /= {}

C11_Witness ==
  /\ fread = "ok"
  /\ DirectEntries(ftext) = {}
  /\ AliasEntries(ftext) /= {}
  /\ parsed.status = "threw"
  /\ parsed.error.name = "ThemeParseError"

\* every key is a non-empty string and every direct value is #RRGGBB
PaletteInvariant(p) ==
  /\ \A k \in DOMAIN p.colors :
       /\ Len(k) > 0
       /\ Len(p.colors[k]) = 7
       /\ p.colors[k][1] = "#"
       /\ \A i \in 2..7 : p.colors[k][i] \in Digits \cup HexLetters
  /\ \A k \in DOMAIN p.semantics : Len(k) > 0

\* C17: the palette parseThemeFile returns, and every palette obtained from
\* it by applying applyOverrides any number of times, has non-empty keys in
\* both maps and only #RRGGBB values in the direct map.
C17_PaletteInvariant ==
  parsed.status = "ok" =>
    /\ PaletteInvariant(parsed.value)
    /\ PaletteInvariant(chain)

C17_Witness ==
  /\ parsed.status = "ok"
  /\ nmerge > 1
  /\ chain /= parsed.value
  /\ MapHas(chain.colors, n_b)
  /\ chain.colors[n_b] = hex3
  /\ MapHas(chain.semantics, n_a)

\* C12: every failure of parseThemeFile, a failed read or a text that cannot
\* be parsed, is one ThemeParseError that carries the original error as cause.
C12_SingleParseError ==
  parsed.status = "threw"
    => /\ parsed.error.name = "ThemeParseError"
       /\ parsed.error.code = "THEME_PARSE_ERROR"
       /\ fread = "failed" => parsed.error.cause /= "none"

----------------------------------------------------------------------------
(* Claims about theme synthesis, checked under SpecTheme *)

\* the variant id of the run
VariantId == THEME_DEFINITIONS[tdef].id

\* the static token mapping table of the build
TokenTable == IF build = "src/extension.ts" THEN TEXTMATE_SCOPE_MAPPINGS ELSE TEXTMATE

\* the per-variant override table of the build
VariantTable ==
  IF build = "src/extension.ts" THEN THEME_SPECIFIC_OVERRIDES ELSE ThemeGenerator_overrides

\* the entry of the per-variant table for the scope under exactly the id
ExactOverride(scope, id) ==
  IF scope \in DOMAIN VariantTable /\ id \in DOMAIN VariantTable[scope]
  THEN {VariantTable[scope][id]}
  ELSE {}

\* the foreground colors of the token rules of theme t that list the scope
RuleForeground(t, scope) ==
  { t.tokenColors[k].foreground :
      k \in { j \in 1..Len(t.tokenColors) :
                \E n \in 1..Len(t.tokenColors[j].scope) : t.tokenColors[j].scope[n] = scope } }

\* the color name C13 expects for a mapping <<scope, names>>: the exact-id
\* override when there is one, the static mapping otherwise
ExpectedColorName(mapping, id) ==
  IF ExactOverride(mapping[1], id) /= {}
  THEN ExactOverride(mapping[1], id)
  ELSE IF Len(mapping[2]) > 0 /\ mapping[2][1] /= empty THEN {mapping[2][1]} ELSE {}

\* C13: in a generated theme, the rule of every token scope carries the color
\* of the per-variant override when the table has an entry for the scope under
\* exactly the variant id, and the color of the static mapping when it has none.
C13_VariantOverrideWins ==
  tres.status = "ok" =>
    /\ \A i \in 1..Len(TokenTable) :
         \A name \in ExpectedColorName(TokenTable[i], VariantId) :
           RuleForeground(tres.value, TokenTable[i][1])
             = {resolveColor(name, tfinal.value)}
    /\ build = "report.yml" =>
         \A i \in 1..Len(SEMANTIC) :
           \A name \in ExpectedColorName(SEMANTIC[i], VariantId) :
             /\ MapHas(tres.value.semanticTokenColors, SEMANTIC[i][1])
             /\ tres.value.semanticTokenColors[SEMANTIC[i][1]]
                  = resolveColor(name, tfinal.value)

C13_Witness ==
  /\ tres.status = "ok"
  /\ VariantId = "modus-operandi-deuteranopia"
  /\ ExactOverride("comment", VariantId) = {yellow_cooler}
  /\ RuleForeground(tres.value, "comment") = {tpal.colors[yellow_cooler]}
  /\ tpal.colors[yellow_cooler] /= tpal.colors[fg_dim]
  /\ RuleForeground(tres.value, "string") = {tpal.colors[blue_warmer]}

\* the characters of the UI element ids that modus.colorOverrides names
ElementChars == ("foreground" :> foreground)

\* C14: an override keyed by a UI element id overrides that element's color:
\* in the color table of the generated theme the element maps to the
\* overriding hex value, or to the hex the overriding palette name resolves to.
C14_ElementOverride ==
  tres.status = "ok" =>
    \A i \in 1..Len(config.colorOverrides), id \in DOMAIN ElementChars :
      LET key == config.colorOverrides[i][1]
          value == config.colorOverrides[i][2]
      IN key = ElementChars[id] =>
           /\ MapHas(tres.value.colors, id)
           /\ tres.value.colors[id]
                = IF hexColor(value) THEN value ELSE resolveColor(value, tpal)

\* the configurations that differ from cfg in the feature toggles only
Toggled(cfg) ==
  { [cfg EXCEPT !.boldKeywords = t, !.italicComments = u, !.useSemanticHighlighting = w] :
      t \in BOOLEAN, u \in BOOLEAN, w \in BOOLEAN }

\* the foreground colors of the token rules of theme t, rule by rule
Foregrounds(t) == [k \in 1..Len(t.tokenColors) |-> t.tokenColors[k].foreground]

\* C16: the feature toggles never change palette resolution: generateTheme on
\* the same palette and definition under any other setting of the toggles
\* succeeds or fails as this call did, and when it succeeds it gives the same
\* UI color table and the same foreground for every token rule.
C16_TogglesStyleOnly ==
  tres.status /= "none" =>
    \A cfg \in Toggled(config) :
      LET other == generate(tfinal.value, THEME_DEFINITIONS[tdef], cfg)
      IN /\ other.status = tres.status
         /\ other.error = tres.error
         /\ other.value.colors = tres.value.colors
         /\ Foregrounds(other.value) = Foregrounds(tres.value)

C16_Witness ==
  /\ tres.status = "ok"
  /\ config.boldKeywords
  /\ ~config.italicComments
  /\ Len(tres.value.tokenColors) > 0
  /\ generate(tfinal.value, THEME_DEFINITIONS[tdef],
              [config EXCEPT !.boldKeywords = FALSE, !.italicComments = TRUE]).status = "ok"

\* the tokens that have a mapping for the variant, in either table of the build
MappedTokens ==
  { TokenTable[i][1] :
      i \in { j \in 1..Len(TokenTable) : ExpectedColorName(TokenTable[j], VariantId) /= {} } }
  \cup (IF build = "report.yml"
        THEN { SEMANTIC[i][1] :
                 i \in { j \in 1..Len(SEMANTIC) :
                           ExpectedColorName(SEMANTIC[j], VariantId) /= {} } }
        ELSE {})

\* C20: every token that has a mapping is emitted into both rule lists with
\* one color: tokenColors has a rule for it, semanticTokenColors has an entry
\* for it, and the two carry the same foreground.
C20_DualEmission ==
  tres.status = "ok" =>
    \A token \in MappedTokens :
      /\ RuleForeground(tres.value, token) /= {}
      /\ MapHas(tres.value.semanticTokenColors, token)
      /\ RuleForeground(tres.value, token) = {tres.value.semanticTokenColors[token]}

\* the font styles of the token rules of a rule list that list the scope
RuleFontStyle(rules, scope) ==
  { rules[k].fontStyle :
      k \in { j \in 1..Len(rules) :
                \E n \in 1..Len(rules[j].scope) : rules[j].scope[n] = scope } }

\* the font style C21 expects of the keyword rule under the configuration
ExpectedKeywordStyle(cfg) == IF cfg.boldKeywords THEN "bold" ELSE "none"

\* src/extension.ts: the rules its loop over scopesByColor pushes for the run
GroupRulesOfRun ==
  groupRules(scopesByColor(TEXTMATE_SCOPE_MAPPINGS, 1, <<>>, VariantId), 1, <<>>,
             tfinal.value, config.boldKeywords)

\* C21: for every theme variant the token rule that covers the scope 'keyword'
\* has fontStyle 'bold' when boldKeywords is true and no bold fontStyle when it
\* is false: in the theme generateTheme returned, and in the rules the loop of
\* src/extension.ts over scopesByColor pushes.
C21_BoldKeywords ==
  /\ tres.status = "ok" =>
       RuleFontStyle(tres.value.tokenColors, "keyword") = {ExpectedKeywordStyle(config)}
  /\ (build = "src/extension.ts" /\ tfinal.status = "ok" /\ ~GroupRulesOfRun.threw) =>
       RuleFontStyle(GroupRulesOfRun.rules, "keyword") = {ExpectedKeywordStyle(config)}

----------------------------------------------------------------------------
(* Claims about the opacity transform, checked under SpecOpacity *)

\* the value of a hex digit, of either case
HexDigitValue(ch) ==
  CHOOSE n \in 0..15 :
    ch \in { HexDigitSeq[n + 1],
             << "0", "1", "2", "3", "4", "5", "6", "7", "8", "9",
                "A", "B", "C", "D", "E", "F" >>[n + 1] }

\* the hex string without its leading '#'
Stripped(hex) == IF startsWith(hex, "#") THEN SubSeq(hex, 2, Len(hex)) ELSE hex

\* k is round(o * 255) for the opacity o of h hundredths: the integer with
\* o * 255 - 1/2 < k <= o * 255 + 1/2
IsRounded(k, h) ==
  /\ 2 * (100 * k - 255 * h) <= 100
  /\ 2 * (255 * h - 100 * k) < 100

\* C22: for a valid #RRGGBB and an opacity in [0,1] applyOpacity returns '#'
\* and 8 hex digits, the first 6 the input's, the last 2 round(o*255) in hex,
\* zero-padded; for an input whose '#'-stripped length is not 6 it fails.
C22_ApplyOpacity ==
  blended.status /= "none" =>
    /\ (hexColor(ohex) /\ oopacity.numeric
        /\ oopacity.hundredths \in 0..100) =>
         /\ blended.status = "ok"
         /\ Len(blended.value) = 9
         /\ SubSeq(blended.value, 1, 7) = ohex
         /\ IsHexDigit(blended.value[8]) /\ IsHexDigit(blended.value[9])
         /\ IsRounded(16 * HexDigitValue(blended.value[8])
                        + HexDigitValue(blended.value[9]), oopacity.hundredths)
    /\ Len(Stripped(ohex)) /= 6 => blended.status = "threw"

C22_Witness ==
  /\ blended.status = "ok"
  /\ ohex = <<"#", "3", "3", "6", "6", "9", "9">>
  /\ oopacity = [numeric |-> TRUE, hundredths |-> 50]
  /\ blended.value = <<"#", "3", "3", "6", "6", "9", "9", "8", "0">>

----------------------------------------------------------------------------
(* Claims about the mapping expansion, checked under SpecExpand *)

\* the key sequences from the root of a configuration tree of the model
KeySeqs == UNION { [1..n -> {n_a, n_b, n_c}] : n \in 1..(MaxDepth + 1) }

\* the node reached from node along the keys ks; a value of another type when
\* there is none
RECURSIVE Lookup(_, _)
Lookup(node, ks) ==
  IF ks = <<>> THEN node
  ELSE IF node.kind = "object" /\ \E i \in 1..Len(node.props) : node.props[i][1] = ks[1]
  THEN Lookup(node.props[CHOOSE i \in 1..Len(node.props) : node.props[i][1] = ks[1]][2],
              Tail(ks))
  ELSE OtherLeaf

\* the keys of ks joined by dots
RECURSIVE DotJoined(_)
DotJoined(ks) ==
  IF Len(ks) = 1 THEN ks[1] ELSE ks[1] \o <<".">> \o DotJoined(Tail(ks))

\* the path of the leaf at ks, from the root path
LeafPath(root, ks) ==
  IF root = empty THEN DotJoined(ks) ELSE root \o <<".">> \o DotJoined(ks)

\* the key sequences that lead to a string-valued leaf of the tree
StringLeaves(tree) == { ks \in KeySeqs : Lookup(tree, ks).kind = "string" }

\* C23: expand yields exactly one (path, reference) entry per string-valued
\* leaf, the path being the dot-joined keys from the root to the leaf, and
\* nothing for a value that is neither a string nor an object.
C23_ExpandFlattens ==
  expanded.status = "ok" =>
    /\ Len(expanded.entries) = Cardinality(StringLeaves(xroot))
    /\ \A ks \in StringLeaves(xroot) :
         \E i \in 1..Len(expanded.entries) :
           expanded.entries[i] = << LeafPath(xpath, ks), Lookup(xroot, ks).value >>

C23_Witness ==
  /\ expanded.status = "ok"
  /\ xpath = empty
  /\ xroot = ObjectNode(<< <<n_a, ObjectNode(<< <<n_b, StringLeaf(<<"x">>)>>,
                                                 <<n_c, StringLeaf(<<"y">>)>> >>)>> >>)
  /\ expanded.entries = << << <<"a", ".", "b">>, <<"x">> >>,
                            << <<"a", ".", "c">>, <<"y">> >> >>

----------------------------------------------------------------------------
(* Claims about the order of the steps of a pipeline, checked under Spec *)

\* C26: within one generateThemes run the theme file of a variant is written
\* only after parseThemeFile, applyOverrides and generateTheme have succeeded
\* for it, in that order, and what is written is the theme generateTheme
\* returned; once one of the three has failed for the variant its output file
\* is the one that was there before the run.
C26_WriteAfterSuccess ==
  [][\A v \in Variants :
       /\ disk'[v] /= disk[v] =>
            /\ palette[v].status = "ok"
            /\ finalPalette[v].status = "ok"
            /\ theme[v].status = "ok"
            /\ disk'[v] = [state |-> "written", theme |-> theme[v].value]
       /\ finalPalette'[v] /= finalPalette[v] => palette[v].status = "ok"
       /\ theme'[v] /= theme[v] =>
            /\ palette[v].status = "ok"
            /\ finalPalette'[v].status = "ok"
       /\ (\/ palette'[v].status = "threw"
           \/ finalPalette'[v].status = "threw"
           \/ theme'[v].status = "threw") => disk'[v] = OldFile]_vars

C26_Witness ==
  /\ pc[1] = "fulfilled"
  /\ disk[1] = [state |-> "written", theme |-> theme[1].value]
  /\ theme[1].status = "ok"
  /\ finalPalette[2].status = "ok"
  /\ theme[2].status = "threw"
  /\ pc[2] = "rejected"
  /\ disk[2] = OldFile

\* the output paths of the theme definitions
OutputPaths == { outputPath(THEME_DEFINITIONS[i]) : i \in DOMAIN THEME_DEFINITIONS }

\* the files package.json contributes as themes
ContributedPaths ==
  { contributedPath(CONTRIBUTED_THEMES[i]) : i \in DOMAIN CONTRIBUTED_THEMES }

\* C28: the pipelines of one run never write to the same file: the ids of
\* THEME_DEFINITIONS are pairwise distinct, so are the output paths, in
\* particular those of two pipelines that are writing at the same time, and
\* the output paths are exactly the theme paths of package.json, one
\* definition per contributed theme and the other way round.
C28_DistinctOutputs ==
  /\ \A i, j \in DOMAIN THEME_DEFINITIONS :
       i /= j => /\ THEME_DEFINITIONS[i].id /= THEME_DEFINITIONS[j].id
                 /\ outputPath(THEME_DEFINITIONS[i]) /= outputPath(THEME_DEFINITIONS[j])
  /\ \A v, w \in Variants :
       (v /= w /\ pc[v] = "writing" /\ pc[w] = "writing")
         => outputPath(THEME_DEFINITIONS[v]) /= outputPath(THEME_DEFINITIONS[w])
  /\ OutputPaths = ContributedPaths
  /\ Cardinality(ContributedPaths) = Len(CONTRIBUTED_THEMES)
  /\ Len(CONTRIBUTED_THEMES) = Len(THEME_DEFINITIONS)

C28_Witness ==
  /\ pc[1] = "writing"
  /\ pc[2] = "writing"
  /\ outputPath(THEME_DEFINITIONS[1]) = contributedPath(CONTRIBUTED_THEMES[1])
  /\ outputPath(THEME_DEFINITIONS[2]) = contributedPath(CONTRIBUTED_THEMES[5])

----------------------------------------------------------------------------
(* Claims about the colors of a generated theme, checked under SpecTheme *)

\* the values of the direct map of a palette
DirectValues(p) == { p.colors[k] : k \in DOMAIN p.colors }

\* every color of theme t, in its color table, its token rules and its
\* semantic token colors
ThemeColors(t) ==
  { t.colors[id] : id \in DOMAIN t.colors }
  \cup { t.tokenColors[k].foreground : k \in 1..Len(t.tokenColors) }
  \cup { t.semanticTokenColors[token] : token \in DOMAIN t.semanticTokenColors }

\* C29: every value of the color table and every foreground of the token
\* rules of a theme generateTheme returned is a value of the direct map of the
\* palette it was given, hence #RRGGBB when the palette satisfies its
\* invariant; none is an alias name, the empty string or undefined.
C29_ConcreteColors ==
  tres.status = "ok" =>
    \A color \in ThemeColors(tres.value) :
      /\ color \in DirectValues(tfinal.value)
      /\ color /= empty
      /\ color /= undefined
      /\ ~MapHas(tfinal.value.semantics, color)
      /\ PaletteInvariant(tfinal.value) => hexColor(color)

C29_Witness ==
  /\ tres.status = "ok"
  /\ MapHas(tfinal.value.semantics, blue_warmer)
  /\ ~MapHas(tfinal.value.colors, blue_warmer)
  /\ RuleForeground(tres.value, "string") = {tfinal.value.colors[fg_main]}
  /\ MapHas(tres.value.colors, "foreground")
  /\ PaletteInvariant(tfinal.value)

----------------------------------------------------------------------------
(* Claims about activation, regeneration and deactivation, checked under   *)
(* SpecExtension                                                           *)

\* generateThemes run r has returned or thrown
RunFinished(r) == runs[r].gpc \in {"returned", "threw"}

\* C27: the configuration-change listener and the modus.reloadWindow command
\* are registered only after the initial generateThemes has returned; when
\* loading the configuration or the initial generation fails, activate
\* rejects with that error and neither is registered.
C27_RegisterAfterGenerate ==
  /\ (live /= {} \/ disposables /= <<>>) =>
       /\ Len(runs) >= 1
       /\ runs[1].gpc = "returned"
       /\ apc = "activated"
  /\ apc = "activated" =>
       /\ disposables = <<"listener", "command">>
       /\ {"listener", "command"} \subseteq live \/ deactivated
  /\ apc = "rejected" =>
       /\ live = {}
       /\ disposables = <<>>
       /\ aerror /= NoError
       /\ aerror = IF runs = <<>> THEN ConfigurationError ELSE runs[1].thrown
       /\ runs /= <<>> => runs[1].gpc = "threw"
       /\ Len(runs) <= 1

C27_Witness ==
  /\ apc = "activated"
  /\ live = {"listener", "command"}
  /\ runs[1].gpc = "returned"
  /\ edisk[1].run = 1
  /\ edisk[1].theme = pipeline(runs[1].cfg, 1, TRUE).theme

\* C24: after VS Code has called the exported deactivate() every disposable
\* registered during activation has been disposed, and no configuration
\* change after it has started a theme regeneration.
C24_DeactivateDisposes ==
  deactivated =>
    /\ \A i \in DOMAIN disposables : disposables[i] \notin live
    /\ \A r \in DOMAIN runs : ~runs[r].late

\* C25: once every generateThemes run has finished and the one started last
\* has returned, every theme file on disk is the one generated from the
\* configuration of that run: no older regeneration has overwritten it.
C25_NewerWins ==
  (/\ Len(runs) >= 1
   /\ \A r \in DOMAIN runs : RunFinished(r)
   /\ runs[Len(runs)].gpc = "returned") =>
    \A v \in LifeVariants :
      /\ edisk[v].run = Len(runs)
      /\ edisk[v].theme = pipeline(runs[Len(runs)].cfg, v, TRUE).theme

====
